---- MODULE Spec2Model ----
(***************************************************************************)
(* A model of the p2p-chat client engine (p2p-chat/src/client.rs) and of   *)
(* its wire protocol (p2p-chat/src/protocol.rs).  One engine, the local    *)
(* node, is modelled; the remote peers, the gossip overlay and the DHT are *)
(* its environment and hand it arbitrary (also hostile) input.             *)
(***************************************************************************)
EXTENDS Integers, Sequences, FiniteSets, TLC

(***************************************************************************)
(* Program constants (protocol.rs).                                        *)
(***************************************************************************)
MAX_MESSAGE_LENGTH == 512

MAX_CHANNEL_IDENTIFIER_LENGTH == 20

MAX_NICK_LENGTH == 20

\* "/p2p-chat"
DEFAULT_GOSSIPSUB_TOPIC == <<"/", "p", "2", "p", "-", "c", "h", "a", "t">>

SIGNED_ENVELOPE_DOMAIN == "p2p-chat-data"

MULTICODEC_MSGPACK == <<2, 1>>

(***************************************************************************)
(* Bounds of the model.                                                    *)
(***************************************************************************)
\* the records one lookup result carries
MaxRecords == 2

\* the get_record queries in flight for one key
MaxQueries == 2

(***************************************************************************)
(* A String is its UTF-8 bytes, one element per byte: an ASCII character   *)
(* is one element, a two-byte character is its lead byte followed by the   *)
(* continuation byte "+".  String::len() is the number of bytes.           *)
(***************************************************************************)
Rep(c, n) == [i \in 1..n |-> c]

\* the lead byte of a two-byte character, and the continuation byte
Lead == "#"

Cont == "+"

str_len(s) == Len(s)

is_empty(s) == Len(s) = 0

(***************************************************************************)
(* Option and Result.                                                      *)
(***************************************************************************)
None == [some |-> FALSE]

Some(v) == [some |-> TRUE, v |-> v]

Ok(v) == [ok |-> TRUE, val |-> v]

Err(e) == [ok |-> FALSE, err |-> e]

Unit == "()"

(***************************************************************************)
(* Peers.  PeerId::from(public key): a key pair is named by its peer id.   *)
(***************************************************************************)
LocalPeer == "peerB"

RemotePeers == {"peerA", "peerC"}

Peers == {LocalPeer} \cup RemotePeers

(***************************************************************************)
(* MessagePack (rmp_serde).  An encoded enum value is its variant index    *)
(* and the list of its typed fields; anything else does not decode.        *)
(***************************************************************************)
FStr(s) == [t |-> "str", s |-> s, n |-> 0, p |-> <<>>]

FU64(n) == [t |-> "u64", s |-> <<>>, n |-> n, p |-> <<>>]

FVariant(n) == [t |-> "variant", s |-> <<>>, n |-> n, p |-> <<>>]

FPeer(p) == [t |-> "peer", s |-> <<>>, n |-> 0, p |-> <<p>>]

\* struct Channel { identifier, owner, peers, version }
FChannel(c) ==
    [t |-> "channel", s |-> c.identifier, n |-> c.version, p |-> <<c.owner>> \o c.peers]

Wire(variant, fields) == [variant |-> variant, fields |-> fields]

FieldTypes(w) == [i \in DOMAIN w.fields |-> w.fields[i].t]

\* a serialisation that writes every message as Normal
MessageTypeIndex_normal(mt) == 0

MessageTypeIndex(mt) == IF mt = "Normal" THEN 0 ELSE 1

MessageTypeOf(n) == IF n = 0 THEN "Normal" ELSE "Me"

\* rmp_serde::to_vec(&Command)
Command_to_vec(cmd) ==
    CASE cmd.tag = "ChannelUpdate" -> Wire(0, <<FChannel(cmd.channel)>>)
      [] cmd.tag = "ChannelRequestJoin" -> Wire(1, <<FStr(cmd.channel)>>)
      [] cmd.tag = "ChannelRequestLeave" -> Wire(2, <<FStr(cmd.channel)>>)
      [] cmd.tag = "MessageSend" ->
            Wire(3, <<FStr(cmd.contents), FStr(cmd.channel), FU64(cmd.timestamp),
                      FVariant(MessageTypeIndex(cmd.message_type))>>)
      [] cmd.tag = "NicknameUpdate" -> Wire(4, <<FStr(cmd.nick)>>)

\* rmp_serde::from_read::<Command>
Command_from_read(w) ==
    CASE w.variant = 0 /\ FieldTypes(w) = <<"channel">> ->
            Ok([tag |-> "ChannelUpdate",
                channel |-> [identifier |-> w.fields[1].s, owner |-> Head(w.fields[1].p),
                             peers |-> Tail(w.fields[1].p), version |-> w.fields[1].n]])
      [] w.variant = 1 /\ FieldTypes(w) = <<"str">> ->
            Ok([tag |-> "ChannelRequestJoin", channel |-> w.fields[1].s])
      [] w.variant = 2 /\ FieldTypes(w) = <<"str">> ->
            Ok([tag |-> "ChannelRequestLeave", channel |-> w.fields[1].s])
      [] w.variant = 3 /\ FieldTypes(w) = <<"str", "str", "u64", "variant">>
                       /\ w.fields[4].n \in {0, 1} ->
            Ok([tag |-> "MessageSend", contents |-> w.fields[1].s, channel |-> w.fields[2].s,
                timestamp |-> w.fields[3].n, message_type |-> MessageTypeOf(w.fields[4].n)])
      [] w.variant = 4 /\ FieldTypes(w) = <<"str">> ->
            Ok([tag |-> "NicknameUpdate", nick |-> w.fields[1].s])
      [] OTHER -> Err("DecodeError")

(***************************************************************************)
(* Command (protocol.rs).                                                  *)
(***************************************************************************)
MessageSend(contents, channel, timestamp, message_type) ==
    [tag |-> "MessageSend", contents |-> contents, channel |-> channel,
     timestamp |-> timestamp, message_type |-> message_type]

NicknameUpdate(nick) == [tag |-> "NicknameUpdate", nick |-> nick]

is_valid(cmd) ==
    CASE cmd.tag = "MessageSend" ->
            /\ ~is_empty(cmd.contents)
            /\ str_len(cmd.contents) <= MAX_MESSAGE_LENGTH
            /\ ~is_empty(cmd.channel)
            /\ str_len(cmd.channel) <= MAX_CHANNEL_IDENTIFIER_LENGTH
      [] cmd.tag = "NicknameUpdate" ->
            ~is_empty(cmd.nick) /\ str_len(cmd.nick) <= MAX_NICK_LENGTH
      [] OTHER -> TRUE

check_valid(cmd) == IF ~is_valid(cmd) THEN Err("InvalidData") ELSE Ok(Unit)

\* a decode that forgets check_valid
Command_decode_unchecked(encoded) == Command_from_read(encoded)

Command_decode(encoded) ==
    LET dec == Command_from_read(encoded)
    IN  IF ~dec.ok THEN dec
        ELSE IF ~check_valid(dec.val).ok THEN check_valid(dec.val)
        ELSE dec

\* an encode that forgets check_valid
Command_encode_unchecked(cmd) == Ok(Command_to_vec(cmd))

Command_encode(cmd) ==
    IF ~check_valid(cmd).ok THEN check_valid(cmd) ELSE Ok(Command_to_vec(cmd))

\* a topic that appends the identifier to the default topic
topic_from_channel_unprefixed(ident) == DEFAULT_GOSSIPSUB_TOPIC \o ident

\* format!("/p2p-chat/channel/{ident}")
topic_from_channel(ident) ==
    <<"/", "p", "2", "p", "-", "c", "h", "a", "t", "/",
      "c", "h", "a", "n", "n", "e", "l", "/">> \o ident

(***************************************************************************)
(* MemoryKey / MemoryValue and the signed envelope (protocol.rs).          *)
(***************************************************************************)
KeyNickname(p) == [tag |-> "Nickname", peer |-> p]

KeyChannel(ident) == [tag |-> "Channel", ident |-> ident]

ValueNickname(user, nickname) == [tag |-> "Nickname", user |-> user, nickname |-> nickname]

ValueChannel(c) == [tag |-> "Channel", channel |-> c]

MemoryKey_encode(key) ==
    IF key.tag = "Nickname" THEN Ok(Wire(0, <<FPeer(key.peer)>>))
    ELSE Ok(Wire(1, <<FStr(key.ident)>>))

MemoryKey_decode(w) ==
    CASE w.variant = 0 /\ FieldTypes(w) = <<"peer">> -> Ok(KeyNickname(Head(w.fields[1].p)))
      [] w.variant = 1 /\ FieldTypes(w) = <<"str">> -> Ok(KeyChannel(w.fields[1].s))
      [] OTHER -> Err("DecodeError")

\* rmp_serde::to_vec(&MemoryValue)
MemoryValue_to_vec(v) ==
    IF v.tag = "Nickname" THEN Wire(0, <<FPeer(v.user), FStr(v.nickname)>>)
    ELSE Wire(1, <<FChannel(v.channel)>>)

\* rmp_serde::from_read::<MemoryValue>
MemoryValue_from_read(w) ==
    CASE w.variant = 0 /\ FieldTypes(w) = <<"peer", "str">> ->
            Ok(ValueNickname(Head(w.fields[1].p), w.fields[2].s))
      [] w.variant = 1 /\ FieldTypes(w) = <<"channel">> ->
            Ok(ValueChannel([identifier |-> w.fields[1].s, owner |-> Head(w.fields[1].p),
                             peers |-> Tail(w.fields[1].p), version |-> w.fields[1].n]))
      [] OTHER -> Err("DecodeError")

\* what a signature was made over, and by whose key
Signature(signer, domain, payload_type, payload) ==
    [signer |-> signer, domain |-> domain, payload_type |-> payload_type, payload |-> payload]

\* SignedEnvelope::new(key, domain, payload_type, payload).into_protobuf_encoding()
SignedEnvelope_new(key, domain, payload_type, payload) ==
    [protobuf |-> TRUE, key |-> key, payload_type |-> payload_type, payload |-> payload,
     signature |-> Signature(key, domain, payload_type, payload)]

\* SignedEnvelope::payload_and_signing_key(domain, expected_payload_type)
payload_and_signing_key(env, domain, expected_payload_type) ==
    IF env.payload_type # expected_payload_type THEN Err("SignedEnvelopeReadPayloadError")
    ELSE IF env.signature # Signature(env.key, domain, env.payload_type, env.payload)
    THEN Err("SignedEnvelopeReadPayloadError")
    ELSE Ok([payload |-> env.payload, signing_key |-> env.key])

\* an owner check that takes the first listed peer of a channel for its owner
ExpectedSigner_first_peer(value) ==
    IF value.tag = "Nickname" THEN value.user
    ELSE Head(value.channel.peers \o <<value.channel.owner>>)

ExpectedSigner(value) == IF value.tag = "Nickname" THEN value.user ELSE value.channel.owner

\* a decode that trusts the owner the payload declares
MemoryValue_decode_unverified(encoded) ==
    IF ~encoded.protobuf THEN Err("SignedEnvelopeDecodeError")
    ELSE LET opened == payload_and_signing_key(encoded, SIGNED_ENVELOPE_DOMAIN,
                                               MULTICODEC_MSGPACK)
         IN  IF ~opened.ok THEN opened ELSE MemoryValue_from_read(opened.val.payload)

\* a decode that opens an envelope under whatever domain it was signed over
MemoryValue_decode_any_domain(encoded) ==
    IF ~encoded.protobuf THEN Err("SignedEnvelopeDecodeError")
    ELSE LET opened == payload_and_signing_key(encoded, encoded.signature.domain,
                                               MULTICODEC_MSGPACK)
         IN  IF ~opened.ok THEN opened
             ELSE LET value == MemoryValue_from_read(opened.val.payload)
                  IN  IF ~value.ok THEN value
                      ELSE IF ExpectedSigner(value.val) # opened.val.signing_key
                      THEN Err("SignatureMismatch")
                      ELSE value

MemoryValue_decode(encoded) ==
    IF ~encoded.protobuf THEN Err("SignedEnvelopeDecodeError")
    ELSE LET opened == payload_and_signing_key(encoded, SIGNED_ENVELOPE_DOMAIN,
                                               MULTICODEC_MSGPACK)
         IN  IF ~opened.ok THEN opened
             ELSE LET value == MemoryValue_from_read(opened.val.payload)
                  IN  IF ~value.ok THEN value
                      ELSE IF ExpectedSigner(value.val) # opened.val.signing_key
                      THEN Err("SignatureMismatch")
                      ELSE value

MemoryValue_encode_signed(value, key) ==
    Ok(SignedEnvelope_new(key, SIGNED_ENVELOPE_DOMAIN, MULTICODEC_MSGPACK,
                          MemoryValue_to_vec(value)))

(***************************************************************************)
(* The values the environment draws its input from.                        *)
(***************************************************************************)
General == <<"g", "e", "n">>

Random == <<"r", "n", "d">>

Third == <<"t", "h", "d">>

\* the channels the consumer joins and leaves while the network is active
ChannelSamples == {General}

\* the channels the consumer joins and leaves in the membership specification
MembershipSamples == {General, Random, Third}

Hi == <<"h", "i">>

\* the nickname each node was started with
NickOf(p) ==
    CASE p = "peerA" -> <<"a", "l">>
      [] p = "peerC" -> <<"c", "y">>
      [] OTHER -> <<"b", "o", "b">>

\* the commands a peer p may put on the wire, valid or not
CommandSamples(p) ==
    {MessageSend(Hi, General, 64, "Normal"),
     MessageSend(Rep("m", MAX_MESSAGE_LENGTH), General, 64, "Me"),
     MessageSend(Rep("m", MAX_MESSAGE_LENGTH + 1), General, 64, "Normal"),
     MessageSend(Hi, Rep("c", MAX_CHANNEL_IDENTIFIER_LENGTH + 1), 64, "Normal"),
     NicknameUpdate(NickOf(p)),
     NicknameUpdate(<<>>),
     [tag |-> "ChannelRequestJoin", channel |-> Rep("c", MAX_CHANNEL_IDENTIFIER_LENGTH + 1)]}

\* bytes that are no encoding of a Command
MalformedPayloads == {Wire(3, <<FStr(Hi)>>)}

\* what peer p can publish: a sender is not bound to Command::encode
GossipPayloads ==
    [p \in RemotePeers |-> {Command_to_vec(c) : c \in CommandSamples(p)} \cup MalformedPayloads]

\* gossipsub's default message id: the origin and the sequence number
message_id_fn_default(message) ==
    [source |-> message.source, sequence_number |-> message.sequence_number]

\* fn message_id_fn: a hash of the origin and the payload bytes
message_id_fn(message) == [source |-> message.source, data |-> message.data]

GossipsubMessage(source, data, topic) == [source |-> source, data |-> data, topic |-> topic]

\* GossipsubEvent::Message { propagation_source, message_id, message }
GossipsubMessageEvent(propagation_source, message) ==
    [propagation_source |-> propagation_source, message_id |-> message_id_fn(message),
     message |-> message]

Record(key, value) == [key |-> key, value |-> value]

Other(p) == CHOOSE q \in RemotePeers : q # p

Evil == <<"e", "v">>

\* the key the lookup for p's nickname asks for
NicknameRecordKey(p) == MemoryKey_encode(KeyNickname(p)).val

\* p's own record, as Client::new of p published it
OwnRecord(p) ==
    Record(NicknameRecordKey(p),
           MemoryValue_encode_signed(ValueNickname(p, NickOf(p)), p).val)

\* a record that names p as its owner and is signed by another peer
ForgedRecord(p) ==
    Record(NicknameRecordKey(p),
           MemoryValue_encode_signed(ValueNickname(p, Evil), Other(p)).val)

\* another peer's own record, stored under p's key
MisfiledRecord(p) ==
    Record(NicknameRecordKey(p),
           MemoryValue_encode_signed(ValueNickname(Other(p), NickOf(Other(p))), Other(p)).val)

BadKeyRecord(p) == Record(Wire(7, <<>>), OwnRecord(p).value)

BadEnvelopeRecord(p) ==
    Record(NicknameRecordKey(p), [OwnRecord(p).value EXCEPT !.protobuf = FALSE])

\* the domain another protocol signs its envelopes over
ForeignDomain == "other-app-data"

\* the payload-type tag of another encoding
ForeignPayloadType == <<3, 1>>

\* a record p signed for another protocol, replayed under p's key
ForeignDomainRecord(p) ==
    Record(NicknameRecordKey(p),
           SignedEnvelope_new(p, ForeignDomain, MULTICODEC_MSGPACK,
                              MemoryValue_to_vec(ValueNickname(p, Evil))))

\* a record p signed over another payload type, relabelled as MessagePack
ForeignTypeRecord(p) ==
    Record(NicknameRecordKey(p),
           [SignedEnvelope_new(p, SIGNED_ENVELOPE_DOMAIN, ForeignPayloadType,
                               MemoryValue_to_vec(ValueNickname(p, Evil)))
               EXCEPT !.payload_type = MULTICODEC_MSGPACK])

RecordSamples(p) ==
    {OwnRecord(p), ForgedRecord(p), MisfiledRecord(p), BadKeyRecord(p), BadEnvelopeRecord(p),
     ForeignDomainRecord(p), ForeignTypeRecord(p)}

RECURSIVE SeqsUpTo(_, _)
SeqsUpTo(S, n) ==
    IF n = 0 THEN {<<>>}
    ELSE LET shorter == SeqsUpTo(S, n - 1)
         IN  shorter \cup {Append(q, x) : q \in shorter, x \in S}

RecordLists == [p \in RemotePeers |-> SeqsUpTo(RecordSamples(p), MaxRecords) \ {<<>>}]

(***************************************************************************)
(* ClientEvent (client.rs).                                                *)
(***************************************************************************)
EventMessage(contents, channel, timestamp, message_type, source) ==
    [type |-> "Message", contents |-> contents, channel |-> channel,
     timestamp |-> timestamp, message_type |-> message_type, source |-> source]

EventUpdatedNickname(nick, source) ==
    [type |-> "UpdatedNickname", nick |-> nick, source |-> source]

EventPeerConnected(peer_id) == [type |-> "PeerConnected", peer_id |-> peer_id]

EventPeerDisconnected(peer_id) == [type |-> "PeerDisconnected", peer_id |-> peer_id]

EventDialing(peer_id) == [type |-> "Dialing", peer_id |-> peer_id]

\* peer_id is an Option<PeerId>
EventOutgoingConnectionError(peer_id, error) ==
    [type |-> "OutgoingConnectionError", peer_id |-> peer_id, error |-> error]

(***************************************************************************)
(* The engine's state: struct Client, and what its swarm holds.            *)
(***************************************************************************)
VARIABLES
    nick_cache,     \* HashMap<PeerId, Option<String>>
    channels,       \* Vec<ChannelIdentifier>
    subscriptions,  \* the topics the gossipsub behaviour is subscribed to
    kad_queries,    \* per peer, the get_record queries for its nickname in flight
    nick_source,    \* history: how each cache entry got its value, and who authored it
    last,           \* the last operation: its name, input, return value, the item the
                    \* consumer polled, and the verdicts reported to gossipsub
    published,      \* the messages gossipsub accepted from publish (its duplicate cache)
    topic_peers,    \* gossipsub's view of which peer is subscribed to which topic
    floodsub_events,\* lib.rs: the events the floodsub behaviour has queued for the swarm
    panicked,       \* the thread that drives the engine has panicked
    kad_store,      \* the records the local Kademlia MemoryStore holds
    kad_providers,  \* the provider records of the local store
    explicit_peers, \* gossipsub's explicit peers
    kad_addresses,  \* Kademlia's routing table: (peer, address) pairs
    mdns_nodes,     \* the (peer, address) pairs the mdns behaviour tracks
    seen,           \* gossipsub's duplicate cache: the ids of the messages received
    delivered,      \* history: the gossip messages that reached handle_event
    swarm_queue,    \* the composite events the swarm has ready, oldest first
    consumed,       \* history: the composite events poll_next took from the swarm
    emitted         \* history: the items poll_next handed to the application

vars == <<nick_cache, channels, subscriptions, kad_queries, nick_source, last,
          published, topic_peers, floodsub_events, panicked,
          kad_store, kad_providers, explicit_peers, kad_addresses, mdns_nodes,
          seen, delivered, swarm_queue, consumed, emitted>>

\* what the local store holds once the engine is built
store_vars == <<kad_store, kad_providers>>

\* what discovery and connection events change
discovery_vars == <<explicit_peers, kad_addresses, mdns_nodes>>

\* the event stream and gossipsub's duplicate cache
stream_vars == <<seen, delivered, swarm_queue, consumed, emitted>>

net_vars == <<store_vars, discovery_vars, stream_vars>>

\* what the membership and nickname operations leave alone
swarm_vars == <<published, topic_peers, floodsub_events, panicked>>

Insert(map, k, v) == [q \in DOMAIN map \cup {k} |-> IF q = k THEN v ELSE map[q]]

Written(via, author) == [via |-> via, author |-> author]

Last(op, arg, ret, event, reports) ==
    [op |-> op, arg |-> arg, ret |-> ret, event |-> event, reports |-> reports]

Contains(seq, x) == \E i \in DOMAIN seq : seq[i] = x

\* Vec::remove(idx)
Remove(seq, idx) == [i \in 1..(Len(seq) - 1) |-> IF i < idx THEN seq[i] ELSE seq[i + 1]]

\* Iterator::position
Position(seq, x) == IF Contains(seq, x) THEN Some(CHOOSE i \in DOMAIN seq : seq[i] = x /\ \A j \in 1..(i - 1) : seq[j] # x) ELSE None

\* Client::new without kademlia.start_providing
Client_new_no_provider(nick, id_keys) ==
    LET peer_id == id_keys
        nick_key == MemoryKey_encode(KeyNickname(peer_id))
        nick_value == MemoryValue_encode_signed(ValueNickname(peer_id, nick), id_keys)
    IN  IF ~nick_key.ok THEN nick_key
        ELSE IF ~nick_value.ok THEN nick_value
        ELSE Ok([nick |-> nick,
                 nick_cache |-> [p \in {peer_id} |-> Some(nick)],
                 channels |-> <<>>,
                 subscriptions |-> {DEFAULT_GOSSIPSUB_TOPIC},
                 kad_store |-> {Record(nick_key.val, nick_value.val)},
                 kad_providers |-> {}])

\* Client::new: the engine's fields and what its behaviours hold
Client_new(nick, id_keys) ==
    LET peer_id == id_keys
        nick_key == MemoryKey_encode(KeyNickname(peer_id))
        nick_value == MemoryValue_encode_signed(ValueNickname(peer_id, nick), id_keys)
    IN  IF ~nick_key.ok THEN nick_key
        ELSE IF ~nick_value.ok THEN nick_value
        ELSE Ok([nick |-> nick,
                 nick_cache |-> [p \in {peer_id} |-> Some(nick)],
                 channels |-> <<>>,
                 subscriptions |-> {DEFAULT_GOSSIPSUB_TOPIC},
                 kad_store |-> {Record(nick_key.val, nick_value.val)},
                 kad_providers |-> {[key |-> nick_key.val, provider |-> peer_id]}])

\* the state Client::new returns, and a swarm that has not run yet
InitClient(nick) ==
    LET client == Client_new(nick, LocalPeer)
    IN  /\ client.ok
        /\ nick_cache = client.val.nick_cache
        /\ channels = client.val.channels
        /\ subscriptions = client.val.subscriptions
        /\ kad_store = client.val.kad_store
        /\ kad_providers = client.val.kad_providers
        /\ kad_queries = [p \in Peers |-> 0]
        /\ nick_source = [p \in {LocalPeer} |-> Written("new", LocalPeer)]
        /\ published = {}
        /\ topic_peers = {}
        /\ floodsub_events = <<>>
        /\ panicked = FALSE
        /\ explicit_peers = {}
        /\ kad_addresses = {}
        /\ mdns_nodes = {}
        /\ seen = {}
        /\ delivered = {}
        /\ swarm_queue = <<>>
        /\ consumed = <<>>
        /\ emitted = <<>>

\* the engine started with the nickname of the local node
InitEngine == InitClient(NickOf(LocalPeer))

Init ==
    /\ InitEngine
    /\ last = Last("new", LocalPeer, Ok(Unit), None, <<>>)

(***************************************************************************)
(* Channel membership: join_channel, leave_channel.                        *)
(***************************************************************************)
\* Gossipsub::subscribe: Ok(false) when already subscribed; telling the peers may fail
gossipsub_subscribe(subs, topic, io_ok) ==
    IF topic \in subs THEN [ret |-> Ok(FALSE), subscriptions |-> subs]
    ELSE IF ~io_ok THEN [ret |-> Err("SubscriptionError"), subscriptions |-> subs]
    ELSE [ret |-> Ok(TRUE), subscriptions |-> subs \cup {topic}]

\* a join that does not look at the membership list first
join_channel_unchecked(chs, subs, ident, io_ok) ==
    LET sub == gossipsub_subscribe(subs, topic_from_channel(ident), io_ok)
    IN  IF ~sub.ret.ok
        THEN [ret |-> sub.ret, channels |-> chs, subscriptions |-> sub.subscriptions]
        ELSE [ret |-> Ok(Unit), channels |-> Append(chs, ident),
              subscriptions |-> sub.subscriptions]

\* a join that records the channel before it subscribes
join_channel_push_first(chs, subs, ident, io_ok) ==
    IF Contains(chs, ident)
    THEN [ret |-> Ok(Unit), channels |-> chs, subscriptions |-> subs]
    ELSE LET sub == gossipsub_subscribe(subs, topic_from_channel(ident), io_ok)
         IN  [ret |-> IF sub.ret.ok THEN Ok(Unit) ELSE sub.ret,
              channels |-> Append(chs, ident), subscriptions |-> sub.subscriptions]

join_channel(chs, subs, ident, io_ok) ==
    IF Contains(chs, ident)
    THEN [ret |-> Ok(Unit), channels |-> chs, subscriptions |-> subs]
    ELSE LET sub == gossipsub_subscribe(subs, topic_from_channel(ident), io_ok)
         IN  IF ~sub.ret.ok
             THEN [ret |-> sub.ret, channels |-> chs, subscriptions |-> sub.subscriptions]
             ELSE [ret |-> Ok(Unit), channels |-> Append(chs, ident),
                   subscriptions |-> sub.subscriptions]

\* the code calls subscribe, not unsubscribe, after removing the channel
leave_channel(chs, subs, ident, io_ok) ==
    LET idx == Position(chs, ident)
    IN  IF idx.some
        THEN LET removed == Remove(chs, idx.v)
                 sub == gossipsub_subscribe(subs, topic_from_channel(ident), io_ok)
             IN  IF ~sub.ret.ok
                 THEN [ret |-> sub.ret, channels |-> removed,
                       subscriptions |-> sub.subscriptions]
                 ELSE [ret |-> Ok(Unit), channels |-> removed,
                       subscriptions |-> sub.subscriptions]
        ELSE [ret |-> Ok(Unit), channels |-> chs, subscriptions |-> subs]

JoinChannel(ident, io_ok) ==
    LET r == join_channel(channels, subscriptions, ident, io_ok)
    IN  /\ ~panicked
        /\ channels' = r.channels
        /\ subscriptions' = r.subscriptions
        /\ last' = Last("join_channel", ident, r.ret, None, <<>>)
        /\ UNCHANGED <<nick_cache, kad_queries, nick_source>>
        /\ UNCHANGED swarm_vars
        /\ UNCHANGED net_vars

LeaveChannel(ident, io_ok) ==
    LET r == leave_channel(channels, subscriptions, ident, io_ok)
    IN  /\ ~panicked
        /\ channels' = r.channels
        /\ subscriptions' = r.subscriptions
        /\ last' = Last("leave_channel", ident, r.ret, None, <<>>)
        /\ UNCHANGED <<nick_cache, kad_queries, nick_source>>
        /\ UNCHANGED swarm_vars
        /\ UNCHANGED net_vars

(***************************************************************************)
(* fetch_nickname.                                                         *)
(***************************************************************************)
\* a fetch that asks again while the entry is pending
fetch_nickname_requery(nc, peer) ==
    IF peer \in DOMAIN nc /\ nc[peer].some
    THEN [ret |-> Ok(nc[peer]), nick_cache |-> nc, get_record |-> {}]
    ELSE [ret |-> Ok(None), nick_cache |-> Insert(nc, peer, None),
          get_record |-> {MemoryKey_encode(KeyNickname(peer)).val}]

\* a fetch that answers from the cache and refreshes the entry from the DHT
fetch_nickname_refresh(nc, peer) ==
    [ret |-> Ok(IF peer \in DOMAIN nc THEN nc[peer] ELSE None),
     nick_cache |-> IF peer \in DOMAIN nc THEN nc ELSE Insert(nc, peer, None),
     get_record |-> IF peer = LocalPeer THEN {} ELSE {MemoryKey_encode(KeyNickname(peer)).val}]

fetch_nickname(nc, peer) ==
    IF peer \in DOMAIN nc
    THEN [ret |-> Ok(nc[peer]), nick_cache |-> nc, get_record |-> {}]
    ELSE LET key == MemoryKey_encode(KeyNickname(peer))
         IN  IF ~key.ok THEN [ret |-> key, nick_cache |-> nc, get_record |-> {}]
             ELSE [ret |-> Ok(None), nick_cache |-> Insert(nc, peer, None),
                   get_record |-> {key.val}]

FetchNickname(peer) ==
    LET r == fetch_nickname(nick_cache, peer)
    IN  /\ ~panicked
        /\ \A p \in Peers : NicknameRecordKey(p) \in r.get_record => kad_queries[p] < MaxQueries
        /\ nick_cache' = r.nick_cache
        /\ kad_queries' = [p \in Peers |->
                             IF NicknameRecordKey(p) \in r.get_record
                             THEN kad_queries[p] + 1 ELSE kad_queries[p]]
        /\ nick_source' = IF r.get_record # {}
                          THEN Insert(nick_source, peer, Written("fetch", LocalPeer))
                          ELSE nick_source
        /\ last' = Last("fetch_nickname", peer, r.ret, None, <<>>)
        /\ UNCHANGED <<channels, subscriptions>>
        /\ UNCHANGED swarm_vars
        /\ UNCHANGED net_vars

(***************************************************************************)
(* Event translation: handle_event, handle_message, poll_next.             *)
(***************************************************************************)
Report(message_id, source, acceptance) ==
    [message_id |-> message_id, source |-> source, acceptance |-> acceptance]

\* what `match cmd { ... }` of handle_message yields and writes
command_event(nc, cmd, source) ==
    CASE cmd.tag = "MessageSend" ->
            [evt |-> Some(EventMessage(cmd.contents, cmd.channel, cmd.timestamp,
                                       cmd.message_type, source)),
             nick_cache |-> nc, written |-> {}]
      [] cmd.tag = "NicknameUpdate" ->
            [evt |-> Some(EventUpdatedNickname(cmd.nick, source)),
             nick_cache |-> Insert(nc, source, Some(cmd.nick)), written |-> {source}]
      [] OTHER -> [evt |-> None, nick_cache |-> nc, written |-> {}]

\* a translation that answers Accept to whatever arrives
handle_message_accept_all(nc, message, message_id, source) ==
    LET dec == Command_decode(message.data)
    IN  IF dec.ok
        THEN LET r == command_event(nc, dec.val, source)
             IN  [evt |-> r.evt, nick_cache |-> r.nick_cache, written |-> r.written,
                  reports |-> <<Report(message_id, source, "Accept")>>]
        ELSE [evt |-> None, nick_cache |-> nc, written |-> {},
              reports |-> <<Report(message_id, source, "Accept")>>]

\* a translation that returns on a decode failure before it reports
handle_message_silent(nc, message, message_id, source) ==
    LET dec == Command_decode(message.data)
    IN  IF dec.ok
        THEN LET acceptance == IF is_valid(dec.val) THEN "Accept" ELSE "Reject"
                 r == command_event(nc, dec.val, source)
             IN  [evt |-> r.evt, nick_cache |-> r.nick_cache, written |-> r.written,
                  reports |-> <<Report(message_id, source, acceptance)>>]
        ELSE [evt |-> None, nick_cache |-> nc, written |-> {}, reports |-> <<>>]

handle_message(nc, message, message_id, source) ==
    LET dec == Command_decode(message.data)
    IN  IF dec.ok
        THEN LET acceptance == IF is_valid(dec.val) THEN "Accept" ELSE "Reject"
                 r == command_event(nc, dec.val, source)
             IN  [evt |-> r.evt, nick_cache |-> r.nick_cache, written |-> r.written,
                  reports |-> <<Report(message_id, source, acceptance)>>]
        ELSE [evt |-> None, nick_cache |-> nc, written |-> {},
              reports |-> <<Report(message_id, source, "Reject")>>]

\* the arm of handle_event for GossipsubEvent::Message: `propagation_source: source`
handle_gossipsub_message(nc, ev) ==
    handle_message(nc, ev.message, ev.message_id, ev.propagation_source)

\* Stream::poll_next: handle_event(e).unwrap_or(None)
poll_item(ret) == IF ret.ok THEN ret.val ELSE None

\* report_ok: whether report_message_validation_result returned Ok; on Err the
\* `.expect("could not report message validation")` of handle_message panics,
\* after the cache was written and before anything is returned
GossipsubMessageHandled(ev, report_ok) ==
    LET r == handle_gossipsub_message(nick_cache, ev)
    IN  /\ ~panicked
        /\ nick_cache' = r.nick_cache
        /\ nick_source' = [p \in DOMAIN r.nick_cache |->
                             IF p \in r.written THEN Written("gossip", ev.message.source)
                             ELSE nick_source[p]]
        /\ IF report_ok \/ r.reports = <<>>
           THEN /\ last' = Last("gossipsub_message", ev, Ok(r.evt), poll_item(Ok(r.evt)),
                                r.reports)
                /\ panicked' = FALSE
           ELSE /\ last' = Last("panic", ev, Err("could not report message validation"),
                                None, r.reports)
                /\ panicked' = TRUE
        /\ UNCHANGED <<channels, subscriptions, kad_queries>>
        /\ UNCHANGED <<published, topic_peers, floodsub_events>>

HandleGossipsubMessage(ev, report_ok) ==
    /\ GossipsubMessageHandled(ev, report_ok)
    /\ UNCHANGED net_vars

\* a loop that files each nickname under the owner its value declares
RECURSIVE handle_records_by_owner(_, _)
handle_records_by_owner(nc, records) ==
    IF records = <<>> THEN [ret |-> Ok(None), nick_cache |-> nc, written |-> {}]
    ELSE LET record == Head(records)
             key == MemoryKey_decode(record.key)
             value == MemoryValue_decode(record.value)
         IN  IF ~key.ok THEN [ret |-> key, nick_cache |-> nc, written |-> {}]
             ELSE IF ~value.ok THEN [ret |-> value, nick_cache |-> nc, written |-> {}]
             ELSE IF key.val.tag = "Nickname" /\ value.val.tag = "Nickname"
             THEN LET rest == handle_records_by_owner(
                                  Insert(nc, value.val.user, Some(value.val.nickname)),
                                  Tail(records))
                  IN  [rest EXCEPT !.written = @ \cup {value.val.user}]
             ELSE handle_records_by_owner(nc, Tail(records))

\* the loop over get_record_ok.records, with its early returns
RECURSIVE handle_records(_, _)
handle_records(nc, records) ==
    IF records = <<>> THEN [ret |-> Ok(None), nick_cache |-> nc, written |-> {}]
    ELSE LET record == Head(records)
             key == MemoryKey_decode(record.key)
             value == MemoryValue_decode(record.value)
         IN  IF ~key.ok THEN [ret |-> key, nick_cache |-> nc, written |-> {}]
             ELSE IF ~value.ok THEN [ret |-> value, nick_cache |-> nc, written |-> {}]
             ELSE IF key.val.tag = "Nickname" /\ value.val.tag = "Nickname"
             THEN IF value.val.user # key.val.peer
                  THEN [ret |-> Ok(None), nick_cache |-> nc, written |-> {}]
                  ELSE LET rest == handle_records(
                                       Insert(nc, key.val.peer, Some(value.val.nickname)),
                                       Tail(records))
                       IN  [rest EXCEPT !.written = @ \cup {key.val.peer}]
             ELSE handle_records(nc, Tail(records))

GetRecordOk(records) == [tag |-> "GetRecord", ok |-> TRUE, records |-> records]

GetRecordErr == [tag |-> "GetRecord", ok |-> FALSE, records |-> <<>>]

\* any other QueryResult: PutRecord, StartProviding, Bootstrap, ...
OtherQueryResult == [tag |-> "PutRecord", ok |-> TRUE, records |-> <<>>]

\* an arm that drops the pending entries when a lookup fails, so that a fetch asks again
handle_query_completed_forget(nc, result) ==
    IF result.tag = "GetRecord" /\ result.ok
    THEN handle_records(nc, result.records)
    ELSE [ret |-> Ok(None), nick_cache |-> [p \in {q \in DOMAIN nc : nc[q].some} |-> nc[p]],
          written |-> {}]

\* the arm of handle_event for KademliaEvent::OutboundQueryCompleted
handle_query_completed(nc, result) ==
    IF result.tag = "GetRecord" /\ result.ok
    THEN handle_records(nc, result.records)
    ELSE [ret |-> Ok(None), nick_cache |-> nc, written |-> {}]

QueryResults ==
    [p \in RemotePeers |-> {GetRecordOk(records) : records \in RecordLists[p]} \cup {GetRecordErr}]

\* the peers whose nickname the consumer asks for
FetchPeers == {LocalPeer, "peerA"}

\* the lookup for p's nickname completes
HandleGetRecordCompleted(p, result) ==
    LET r == handle_query_completed(nick_cache, result)
    IN  /\ ~panicked
        /\ kad_queries[p] > 0
        /\ kad_queries' = [kad_queries EXCEPT ![p] = @ - 1]
        /\ nick_cache' = r.nick_cache
        /\ nick_source' = [q \in DOMAIN r.nick_cache |->
                             IF q \in r.written THEN Written("lookup", q)
                             ELSE nick_source[q]]
        /\ last' = Last("query_completed", result, r.ret, poll_item(r.ret), <<>>)
        /\ UNCHANGED <<channels, subscriptions>>
        /\ UNCHANGED swarm_vars
        /\ UNCHANGED net_vars

\* a query other than get_record completes (put_record, start_providing of Client::new)
HandleOtherQueryCompleted ==
    LET r == handle_query_completed(nick_cache, OtherQueryResult)
    IN  /\ ~panicked
        /\ nick_cache' = r.nick_cache
        /\ last' = Last("query_completed", OtherQueryResult, r.ret, poll_item(r.ret), <<>>)
        /\ UNCHANGED <<channels, subscriptions, kad_queries, nick_source>>
        /\ UNCHANGED swarm_vars
        /\ UNCHANGED net_vars

Next ==
    \/ \E ident \in ChannelSamples, io_ok \in BOOLEAN : JoinChannel(ident, io_ok)
    \/ \E ident \in ChannelSamples, io_ok \in BOOLEAN : LeaveChannel(ident, io_ok)
    \/ \E peer \in FetchPeers : FetchNickname(peer)
    \/ \E prop \in RemotePeers, origin \in RemotePeers, topic \in subscriptions :
          \E data \in GossipPayloads[origin], report_ok \in BOOLEAN :
             HandleGossipsubMessage(
                 GossipsubMessageEvent(prop, GossipsubMessage(origin, data, topic)),
                 report_ok)
    \/ \E p \in RemotePeers : \E result \in QueryResults[p] :
          HandleGetRecordCompleted(p, result)
    \/ HandleOtherQueryCompleted

Spec == Init /\ [][Next]_vars

\* the consumer only joins and leaves channels
NextMembership ==
    \/ \E ident \in MembershipSamples, io_ok \in BOOLEAN : JoinChannel(ident, io_ok)
    \/ \E ident \in MembershipSamples, io_ok \in BOOLEAN : LeaveChannel(ident, io_ok)

SpecMembership == Init /\ [][NextMembership]_vars

(***************************************************************************)
(* send_message, and what Gossipsub::publish answers.                      *)
(***************************************************************************)
\* impl From<gossipsub::error::PublishError> for Error
PublishError(kind) ==
    CASE kind = "InsufficientPeers" -> "PublishError(InsufficientPeers)"
      [] kind = "Duplicate" -> "PublishError(Duplicate)"
      [] kind = "SigningError" -> "PublishError(SigningError)"
      [] OTHER -> "PublishError(MessageTooLarge)"

\* SystemTime::now(): whether it is after UNIX_EPOCH, whether its milliseconds fit
\* a u64, and the milliseconds
SystemTime(after_epoch, fits_u64, millis) ==
    [after_epoch |-> after_epoch, fits_u64 |-> fits_u64, millis |-> millis]

ClockSamples ==
    {SystemTime(TRUE, TRUE, 64), SystemTime(FALSE, TRUE, 0), SystemTime(TRUE, FALSE, 0)}

\* the peers gossipsub would send a message on the topic to
Recipients(tp, topic) == {peer \in RemotePeers : <<peer, topic>> \in tp}

\* Gossipsub::publish with MessageAuthenticity::Signed: sign, refuse a message id
\* it has published, refuse when no peer is subscribed to the topic, else send
gossipsub_publish(pub, tp, topic, data, sign_ok) ==
    LET message == GossipsubMessage(LocalPeer, data, topic)
    IN  IF ~sign_ok THEN [ret |-> Err("SigningError"), published |-> pub]
        ELSE IF \E m \in pub : message_id_fn(m) = message_id_fn(message)
        THEN [ret |-> Err("Duplicate"), published |-> pub]
        ELSE IF Recipients(tp, topic) = {}
        THEN [ret |-> Err("InsufficientPeers"), published |-> pub]
        ELSE [ret |-> Ok(message_id_fn(message)), published |-> pub \cup {message}]

\* a send that drops the result of publish
send_message_ignore_publish(pub, tp, message, message_type, channel, now, sign_ok) ==
    IF ~now.after_epoch
    THEN [panic |-> TRUE, ret |-> Err("time went backwards"), published |-> pub]
    ELSE IF ~now.fits_u64
    THEN [panic |-> TRUE, ret |-> Err("time overflowed u64"), published |-> pub]
    ELSE LET encoded == Command_encode(MessageSend(message, channel, now.millis, message_type))
         IN  IF ~encoded.ok THEN [panic |-> FALSE, ret |-> encoded, published |-> pub]
             ELSE [panic |-> FALSE, ret |-> Ok(Unit),
                   published |-> gossipsub_publish(pub, tp, topic_from_channel(channel),
                                                   encoded.val, sign_ok).published]

send_message(pub, tp, message, message_type, channel, now, sign_ok) ==
    IF ~now.after_epoch
    THEN [panic |-> TRUE, ret |-> Err("time went backwards"), published |-> pub]
    ELSE IF ~now.fits_u64
    THEN [panic |-> TRUE, ret |-> Err("time overflowed u64"), published |-> pub]
    ELSE LET topic == topic_from_channel(channel)
             command == MessageSend(message, channel, now.millis, message_type)
             encoded == Command_encode(command)
         IN  IF ~encoded.ok THEN [panic |-> FALSE, ret |-> encoded, published |-> pub]
             ELSE LET sent == gossipsub_publish(pub, tp, topic, encoded.val, sign_ok)
                  IN  IF ~sent.ret.ok
                      THEN [panic |-> FALSE, ret |-> Err(PublishError(sent.ret.err)),
                            published |-> sent.published]
                      ELSE [panic |-> FALSE, ret |-> Ok(Unit), published |-> sent.published]

SendArgs(message, message_type, channel, now, sign_ok) ==
    [message |-> message, message_type |-> message_type, channel |-> channel,
     now |-> now, sign_ok |-> sign_ok]

SendMessage(message, message_type, channel, now, sign_ok) ==
    LET r == send_message(published, topic_peers, message, message_type, channel, now, sign_ok)
        arg == SendArgs(message, message_type, channel, now, sign_ok)
    IN  /\ ~panicked
        /\ published' = r.published
        /\ panicked' = r.panic
        /\ last' = Last(IF r.panic THEN "panic" ELSE "send_message", arg, r.ret, None, <<>>)
        /\ UNCHANGED <<nick_cache, channels, subscriptions, kad_queries, nick_source>>
        /\ UNCHANGED <<topic_peers, floodsub_events>>
        /\ UNCHANGED net_vars

\* GossipsubEvent::Subscribed / Unsubscribed: gossipsub has updated its view of the
\* topic's peers; handle_event maps the event to no ClientEvent (`_ => {}`)
HandlePeerSubscribed(peer, topic) ==
    /\ ~panicked
    /\ <<peer, topic>> \notin topic_peers
    /\ topic_peers' = topic_peers \cup {<<peer, topic>>}
    /\ last' = Last("subscribed", <<peer, topic>>, Ok(None), poll_item(Ok(None)), <<>>)
    /\ UNCHANGED <<nick_cache, channels, subscriptions, kad_queries, nick_source>>
    /\ UNCHANGED <<published, floodsub_events, panicked>>
    /\ UNCHANGED net_vars

HandlePeerUnsubscribed(peer, topic) ==
    /\ ~panicked
    /\ <<peer, topic>> \in topic_peers
    /\ topic_peers' = topic_peers \ {<<peer, topic>>}
    /\ last' = Last("unsubscribed", <<peer, topic>>, Ok(None), poll_item(Ok(None)), <<>>)
    /\ UNCHANGED <<nick_cache, channels, subscriptions, kad_queries, nick_source>>
    /\ UNCHANGED <<published, floodsub_events, panicked>>
    /\ UNCHANGED net_vars

\* what the consumer asks send_message to send: message, kind, channel
SendSamples ==
    {<<Hi, "Normal", General>>,
     <<Hi, "Me", General>>,
     <<Rep("m", MAX_MESSAGE_LENGTH), "Normal", General>>,
     <<Rep("m", MAX_MESSAGE_LENGTH + 1), "Me", General>>,
     <<<<>>, "Normal", General>>,
     <<Hi, "Normal", <<>>>>,
     <<Hi, "Normal", Rep("c", MAX_CHANNEL_IDENTIFIER_LENGTH + 1)>>}

\* the topics a remote peer subscribes to
PeerTopics == {topic_from_channel(General), DEFAULT_GOSSIPSUB_TOPIC}

\* the consumer joins a channel and sends, while a peer comes and goes
NextSend ==
    \/ \E io_ok \in BOOLEAN : JoinChannel(General, io_ok)
    \/ \E a \in SendSamples, now \in ClockSamples, sign_ok \in BOOLEAN :
          SendMessage(a[1], a[2], a[3], now, sign_ok)
    \/ \E topic \in PeerTopics : HandlePeerSubscribed("peerA", topic)
    \/ \E topic \in PeerTopics : HandlePeerUnsubscribed("peerA", topic)

SpecSend == Init /\ [][NextSend]_vars

(***************************************************************************)
(* The crate root (p2p-chat/src/lib.rs): the engine over floodsub.         *)
(***************************************************************************)
\* "p2p-chat"
TOPIC == <<"p", "2", "p", "-", "c", "h", "a", "t">>

\* FloodsubConfig { local_peer_id, subscribe_local_messages: true }
subscribe_local_messages == TRUE

\* behaviour.floodsub.subscribe(topic) of Client::new
floodsub_subscribed_topics == {TOPIC}

\* U+FFFD, as one element
Replacement == "?"

\* String::from_utf8_lossy(..).to_string(): what is not UTF-8 becomes U+FFFD
RECURSIVE from_utf8_lossy(_)
from_utf8_lossy(bytes) ==
    IF bytes = <<>> THEN <<>>
    ELSE IF Head(bytes) = Lead
    THEN IF Len(bytes) >= 2 /\ bytes[2] = Cont
         THEN <<Lead, Cont>> \o from_utf8_lossy(Tail(Tail(bytes)))
         ELSE <<Replacement>> \o from_utf8_lossy(Tail(bytes))
    ELSE IF Head(bytes) = Cont THEN <<Replacement>> \o from_utf8_lossy(Tail(bytes))
    ELSE <<Head(bytes)>> \o from_utf8_lossy(Tail(bytes))

\* str::as_bytes
as_bytes(str) == str

FloodsubMessage(source, data, topic) == [source |-> source, data |-> data, topic |-> topic]

\* lib.rs: ClientEvent::Message { contents, source }
LibEventMessage(contents, source) ==
    [type |-> "Message", contents |-> contents, source |-> source]

\* Floodsub::publish: a node subscribed to the topic that asked for its local
\* messages gets its own message as a FloodsubEvent::Message
floodsub_publish(events, topic, data) ==
    IF topic \in floodsub_subscribed_topics /\ subscribe_local_messages
    THEN Append(events, FloodsubMessage(LocalPeer, data, topic))
    ELSE events

\* lib.rs: Client::send_message(message), which returns ()
lib_send_message(events, message) == floodsub_publish(events, TOPIC, as_bytes(message))

\* lib.rs: Client::handle_event for FloodsubEvent::Message
lib_handle_event(message) ==
    Some(LibEventMessage(from_utf8_lossy(message.data), message.source))

\* the events the floodsub behaviour holds before the swarm is polled
MaxEvents == 2

Yo == <<"y", "o">>

\* what the consumer sends
LibSendSamples == {Hi, Yo, <<"o", Lead, Cont>>}

\* the bytes a remote peer floods: text, and bytes that are no UTF-8
LibRemotePayloads == {Hi, <<"h", Cont>>, <<Lead, "i">>}

LibSendMessage(message) ==
    /\ ~panicked
    /\ Len(floodsub_events) < MaxEvents
    /\ floodsub_events' = lib_send_message(floodsub_events, message)
    /\ last' = Last("lib_send_message", message, Ok(Unit), None, <<>>)
    /\ UNCHANGED <<nick_cache, channels, subscriptions, kad_queries, nick_source>>
    /\ UNCHANGED <<published, topic_peers, panicked>>
    /\ UNCHANGED net_vars

\* a message of a remote peer on the subscribed topic reaches the floodsub behaviour
LibFloodsubReceives(peer, data) ==
    /\ ~panicked
    /\ Len(floodsub_events) < MaxEvents
    /\ floodsub_events' = Append(floodsub_events, FloodsubMessage(peer, data, TOPIC))
    /\ last' = Last("lib_receive", FloodsubMessage(peer, data, TOPIC), Ok(Unit), None, <<>>)
    /\ UNCHANGED <<nick_cache, channels, subscriptions, kad_queries, nick_source>>
    /\ UNCHANGED <<published, topic_peers, panicked>>
    /\ UNCHANGED net_vars

\* lib.rs: Stream::poll_next: the swarm yields the oldest event, handle_event maps it
LibPollNext ==
    /\ ~panicked
    /\ floodsub_events # <<>>
    /\ floodsub_events' = Tail(floodsub_events)
    /\ last' = Last("lib_poll_next", Head(floodsub_events), Ok(Unit),
                    lib_handle_event(Head(floodsub_events)), <<>>)
    /\ UNCHANGED <<nick_cache, channels, subscriptions, kad_queries, nick_source>>
    /\ UNCHANGED <<published, topic_peers, panicked>>
    /\ UNCHANGED net_vars

NextFloodsub ==
    \/ \E message \in LibSendSamples : LibSendMessage(message)
    \/ \E peer \in RemotePeers, data \in LibRemotePayloads : LibFloodsubReceives(peer, data)
    \/ LibPollNext

SpecFloodsub == Init /\ [][NextFloodsub]_vars

(***************************************************************************)
(* The codec and the signed records as functions (protocol.rs): the inputs *)
(* are drawn by the initial state, the actions apply the functions.        *)
(***************************************************************************)
\* n two-byte characters
TwoByte(n) == [i \in 1..(2 * n) |-> IF i % 2 = 1 THEN Lead ELSE Cont]

ContentsSamples ==
    {<<>>, <<"h">>, Hi,
     Rep("m", MAX_MESSAGE_LENGTH), Rep("m", MAX_MESSAGE_LENGTH + 1),
     Rep("m", MAX_MESSAGE_LENGTH - 1) \o TwoByte(1),
     TwoByte(MAX_MESSAGE_LENGTH \div 2)}

IdentSamples ==
    {<<>>, <<"c">>, General,
     Rep("c", MAX_CHANNEL_IDENTIFIER_LENGTH), Rep("c", MAX_CHANNEL_IDENTIFIER_LENGTH + 1),
     Rep("c", MAX_CHANNEL_IDENTIFIER_LENGTH - 1) \o TwoByte(1)}

NickSamples ==
    {<<>>, <<"a">>, <<"a", "l", "i", "c", "e">>,
     Rep("n", MAX_NICK_LENGTH), Rep("n", MAX_NICK_LENGTH + 1),
     Rep("n", MAX_NICK_LENGTH - 1) \o TwoByte(1)}

\* struct Channel
Channel(identifier, owner, peers, version) ==
    [identifier |-> identifier, owner |-> owner, peers |-> peers, version |-> version]

ChannelStructSamples ==
    {Channel(General, "peerA", <<"peerC", "peerA">>, 1),
     Channel(Rep("c", MAX_CHANNEL_IDENTIFIER_LENGTH + 1), "peerC", <<>>, 0),
     Channel(<<>>, LocalPeer, <<"peerA">>, 2)}

\* the Commands the functions are tried on
CodecCommands ==
    {MessageSend(contents, channel, timestamp, message_type) :
        contents \in ContentsSamples, channel \in IdentSamples,
        timestamp \in {0, 64}, message_type \in {"Normal", "Me"}}
    \cup {NicknameUpdate(nick) : nick \in NickSamples}
    \cup {[tag |-> "ChannelUpdate", channel |-> c] : c \in ChannelStructSamples}
    \cup {[tag |-> tag, channel |-> channel] :
            tag \in {"ChannelRequestJoin", "ChannelRequestLeave"},
            channel \in {<<>>, General, Rep("c", MAX_CHANNEL_IDENTIFIER_LENGTH + 1)}}

\* the bytes decode is tried on: what a peer not bound to encode may send
CodecBytes ==
    {Command_to_vec(c) : c \in {d \in CodecCommands : d.tag # "MessageSend" \/ d.timestamp = 64}}
    \cup MalformedPayloads
    \cup {Wire(3, <<FStr(Hi), FStr(General), FU64(64), FVariant(2)>>),
          Wire(5, <<FStr(Hi)>>),
          Wire(4, <<FU64(7)>>)}

\* the MemoryValues and the identities they are signed with
ValueSamples ==
    {ValueNickname(user, nickname) : user \in Peers, nickname \in {<<"a", "l">>, <<>>}}
    \cup {ValueChannel(c) : c \in ChannelStructSamples}

TopicIdentSamples ==
    {<<>>, General, Random, <<"g", "e", "n", "/">>,
     <<"h", "e", "l", "l", "o", " ", "w", "o", "r", "l", "d">>}

InCommand(cmd) == [cmd |-> cmd]

InBytes(bytes) == [bytes |-> bytes]

InValue(value, key) == [value |-> value, key |-> key]

InIdents(ident, other) == [ident |-> ident, other |-> other]

CodecInputs ==
    {InCommand(c) : c \in CodecCommands}
    \cup {InBytes(b) : b \in CodecBytes}
    \cup {InValue(v, k) : v \in ValueSamples, k \in Peers}
    \cup {InIdents(a, b) : a \in TopicIdentSamples, b \in TopicIdentSamples}

InitCodec ==
    /\ InitEngine
    /\ last \in {Last("input", x, Ok(Unit), None, <<>>) : x \in CodecInputs}

Applied(op, arg, ret) ==
    /\ last' = Last(op, arg, ret, None, <<>>)
    /\ UNCHANGED <<nick_cache, channels, subscriptions, kad_queries, nick_source>>
    /\ UNCHANGED swarm_vars
    /\ UNCHANGED net_vars

HasInput(field) == last.op = "input" /\ field \in DOMAIN last.arg

\* cmd.is_valid()
ApplyIsValid ==
    /\ HasInput("cmd")
    /\ Applied("is_valid", last.arg, Ok(is_valid(last.arg.cmd)))

\* cmd.encode()
ApplyEncode ==
    /\ HasInput("cmd")
    /\ Applied("encode", last.arg, Command_encode(last.arg.cmd))

\* Command::decode(&cmd.encode()?)
ApplyDecodeEncoded ==
    /\ last.op = "encode"
    /\ last.ret.ok
    /\ Applied("decode_encoded", [cmd |-> last.arg.cmd, bytes |-> last.ret.val],
               Command_decode(last.ret.val))

\* Command::decode(bytes)
ApplyDecode ==
    /\ HasInput("bytes")
    /\ Applied("decode", last.arg, Command_decode(last.arg.bytes))

\* value.encode_signed(&key)
ApplyEncodeSigned ==
    /\ HasInput("value")
    /\ Applied("encode_signed", last.arg,
               MemoryValue_encode_signed(last.arg.value, last.arg.key))

\* MemoryValue::decode(&value.encode_signed(&key)?)
ApplyDecodeSigned ==
    /\ last.op = "encode_signed"
    /\ last.ret.ok
    /\ Applied("decode_signed",
               [value |-> last.arg.value, key |-> last.arg.key, envelope |-> last.ret.val],
               MemoryValue_decode(last.ret.val))

\* topic_from_channel(&ident), on two nodes' identifiers
ApplyTopicFromChannel ==
    /\ HasInput("ident")
    /\ Applied("topic_from_channel", last.arg,
               Ok([topic |-> topic_from_channel(last.arg.ident),
                   other_topic |-> topic_from_channel(last.arg.other)]))

NextCodec ==
    \/ ApplyIsValid
    \/ ApplyEncode
    \/ ApplyDecodeEncoded
    \/ ApplyDecode
    \/ ApplyEncodeSigned
    \/ ApplyDecodeSigned
    \/ ApplyTopicFromChannel

SpecCodec == InitCodec /\ [][NextCodec]_vars

(***************************************************************************)
(* Discovery and connection events (client.rs, handle_event).              *)
(***************************************************************************)
\* the most (peer, address) pairs one mdns event carries
MaxDiscovered == 2

Addr1 == "/ip4/10.0.0.1/tcp/4001"

Addr2 == "/ip4/10.0.0.2/tcp/4001"

\* the (peer, address) pairs the local network can announce
DiscoveryPairs == {<<"peerA", Addr1>>, <<"peerA", Addr2>>, <<"peerC", Addr1>>}

\* the contents of one mdns event: distinct pairs, in the order the event lists them
PairLists(pairs) ==
    {l \in SeqsUpTo(pairs, MaxDiscovered) :
        l # <<>> /\ \A i, j \in DOMAIN l : i # j => l[i] # l[j]}

SeqToSet(seq) == {seq[i] : i \in DOMAIN seq}

\* libp2p::swarm::DialError
DialErrors == {"Banned", "ConnectionLimit"}

\* Mdns::has_node
has_node(nodes, peer) == \E n \in nodes : n[1] = peer

\* a Discovered arm that registers only the first pair of the event
mdns_discovered_first_only(ep, ka, list) ==
    IF list = <<>> THEN [explicit_peers |-> ep, kad_addresses |-> ka]
    ELSE [explicit_peers |-> ep \cup {list[1][1]}, kad_addresses |-> ka \cup {list[1]}]

\* MdnsEvent::Discovered(list): add_explicit_peer and add_address for each pair
RECURSIVE mdns_discovered(_, _, _)
mdns_discovered(ep, ka, list) ==
    IF list = <<>> THEN [explicit_peers |-> ep, kad_addresses |-> ka]
    ELSE mdns_discovered(ep \cup {list[1][1]}, ka \cup {list[1]}, Tail(list))

\* an Expired arm that forgets every address of each expired peer
mdns_expired_whole_peer(ep, ka, nodes, list) ==
    [explicit_peers |-> {p \in ep : has_node(nodes, p) \/ \A i \in DOMAIN list : list[i][1] # p},
     kad_addresses |-> {entry \in ka : \A i \in DOMAIN list : list[i][1] # entry[1]}]

\* MdnsEvent::Expired(list): for each pair, remove_explicit_peer unless mdns still
\* has the node, and remove_address of that one address
RECURSIVE mdns_expired(_, _, _, _)
mdns_expired(ep, ka, nodes, list) ==
    IF list = <<>> THEN [explicit_peers |-> ep, kad_addresses |-> ka]
    ELSE mdns_expired(IF ~has_node(nodes, list[1][1]) THEN ep \ {list[1][1]} ELSE ep,
                      ka \ {list[1]}, nodes, Tail(list))

\* a ConnectionEstablished arm that reports the peer and leaves the routing table alone
connection_established_unseeded(ka, peer_id, address) ==
    [ret |-> Ok(Some(EventPeerConnected(peer_id))), kad_addresses |-> ka]

\* SwarmEvent::ConnectionEstablished: add_address, then PeerConnected
connection_established(ka, peer_id, address) ==
    [ret |-> Ok(Some(EventPeerConnected(peer_id))),
     kad_addresses |-> ka \cup {<<peer_id, address>>}]

\* SwarmEvent::ConnectionClosed
connection_closed(peer_id) == Ok(Some(EventPeerDisconnected(peer_id)))

\* SwarmEvent::Dialing
dialing(peer_id) == Ok(Some(EventDialing(peer_id)))

\* SwarmEvent::OutgoingConnectionError
outgoing_connection_error(peer_id, error) ==
    Ok(Some(EventOutgoingConnectionError(peer_id, error)))

engine_vars == <<nick_cache, channels, subscriptions, kad_queries, nick_source>>

\* the mdns behaviour records the nodes before it surfaces the event
HandleMdnsDiscovered(list) ==
    LET r == mdns_discovered(explicit_peers, kad_addresses, list)
    IN  /\ ~panicked
        /\ mdns_nodes' = mdns_nodes \cup SeqToSet(list)
        /\ explicit_peers' = r.explicit_peers
        /\ kad_addresses' = r.kad_addresses
        /\ last' = Last("mdns_discovered", list, Ok(None), poll_item(Ok(None)), <<>>)
        /\ UNCHANGED engine_vars
        /\ UNCHANGED swarm_vars
        /\ UNCHANGED <<store_vars, stream_vars>>

\* the mdns behaviour drops the expired nodes before it surfaces the event
HandleMdnsExpired(list) ==
    LET nodes == mdns_nodes \ SeqToSet(list)
        r == mdns_expired(explicit_peers, kad_addresses, nodes, list)
    IN  /\ ~panicked
        /\ SeqToSet(list) \subseteq mdns_nodes
        /\ mdns_nodes' = nodes
        /\ explicit_peers' = r.explicit_peers
        /\ kad_addresses' = r.kad_addresses
        /\ last' = Last("mdns_expired", list, Ok(None), poll_item(Ok(None)), <<>>)
        /\ UNCHANGED engine_vars
        /\ UNCHANGED swarm_vars
        /\ UNCHANGED <<store_vars, stream_vars>>

HandleConnectionEstablished(peer_id, address) ==
    LET r == connection_established(kad_addresses, peer_id, address)
    IN  /\ ~panicked
        /\ kad_addresses' = r.kad_addresses
        /\ last' = Last("connection_established", <<peer_id, address>>, r.ret,
                        poll_item(r.ret), <<>>)
        /\ UNCHANGED <<explicit_peers, mdns_nodes>>
        /\ UNCHANGED engine_vars
        /\ UNCHANGED swarm_vars
        /\ UNCHANGED <<store_vars, stream_vars>>

\* an arm that only reports: ConnectionClosed, Dialing, OutgoingConnectionError
Reported(op, arg, ret) ==
    /\ ~panicked
    /\ last' = Last(op, arg, ret, poll_item(ret), <<>>)
    /\ UNCHANGED engine_vars
    /\ UNCHANGED swarm_vars
    /\ UNCHANGED net_vars

HandleConnectionClosed(peer_id) ==
    Reported("connection_closed", peer_id, connection_closed(peer_id))

HandleDialing(peer_id) == Reported("dialing", peer_id, dialing(peer_id))

HandleOutgoingConnectionError(peer_id, error) ==
    Reported("outgoing_connection_error", <<peer_id, error>>,
             outgoing_connection_error(peer_id, error))

NextDiscovery ==
    \/ \E list \in PairLists(DiscoveryPairs) : HandleMdnsDiscovered(list)
    \/ \E list \in PairLists(mdns_nodes) : HandleMdnsExpired(list)
    \/ \E pair \in DiscoveryPairs : HandleConnectionEstablished(pair[1], pair[2])
    \/ \E p \in RemotePeers : HandleConnectionClosed(p)
    \/ \E p \in RemotePeers : HandleDialing(p)
    \/ \E p \in {None} \cup {Some(q) : q \in RemotePeers}, error \in DialErrors :
          HandleOutgoingConnectionError(p, error)

SpecDiscovery == Init /\ [][NextDiscovery]_vars

(***************************************************************************)
(* Duplicate suppression: gossipsub hands a received message to the engine *)
(* only when the id message_id_fn gives it is not in its duplicate cache.  *)
(***************************************************************************)
\* the highest sequence number an origin signs a message with
MaxSeqno == 2

\* GossipsubMessage { source, data, sequence_number, topic }
SequencedMessage(source, data, topic, sequence_number) ==
    [source |-> source, data |-> data, topic |-> topic,
     sequence_number |-> sequence_number]

\* what an origin publishes, and may publish again
DedupPayloads ==
    [p \in RemotePeers |->
        {Command_to_vec(MessageSend(Hi, General, 64, "Normal")),
         Command_to_vec(NicknameUpdate(NickOf(p)))}]

DedupMessages ==
    UNION {{SequencedMessage(origin, data, DEFAULT_GOSSIPSUB_TOPIC, n) :
               data \in DedupPayloads[origin], n \in 1..MaxSeqno} : origin \in RemotePeers}

\* the id is new: the message enters the duplicate cache and reaches handle_event
GossipsubDelivers(prop, message, report_ok) ==
    /\ message_id_fn(message) \notin seen
    /\ seen' = seen \cup {message_id_fn(message)}
    /\ delivered' = delivered \cup {message}
    /\ GossipsubMessageHandled(GossipsubMessageEvent(prop, message), report_ok)
    /\ UNCHANGED <<swarm_queue, consumed, emitted>>
    /\ UNCHANGED <<store_vars, discovery_vars>>

\* the id is in the duplicate cache: gossipsub drops the message, no event surfaces
GossipsubIgnoresDuplicate(prop, message) ==
    /\ ~panicked
    /\ message_id_fn(message) \in seen
    /\ last' = Last("duplicate_ignored", GossipsubMessageEvent(prop, message), Ok(None),
                    None, <<>>)
    /\ UNCHANGED engine_vars
    /\ UNCHANGED swarm_vars
    /\ UNCHANGED net_vars

NextDedup ==
    \/ \E prop \in RemotePeers, message \in DedupMessages, report_ok \in BOOLEAN :
          GossipsubDelivers(prop, message, report_ok)
    \/ \E prop \in RemotePeers, message \in DedupMessages :
          GossipsubIgnoresDuplicate(prop, message)

SpecDedup == Init /\ [][NextDedup]_vars

(***************************************************************************)
(* The event stream: Stream for Client (poll_next) over handle_event.      *)
(***************************************************************************)
\* the most composite events the swarm surfaces in one run
MaxSurfaced == 3

\* SwarmEvent::Behaviour(ComposedEvent::Gossipsub(GossipsubEvent::Message {..}))
SwarmGossipsub(ev) == [swarm |-> "Gossipsub", ev |-> ev]

\* SwarmEvent::Behaviour(ComposedEvent::Kademlia(OutboundQueryCompleted { result, .. }))
SwarmKademlia(peer, result) == [swarm |-> "Kademlia", peer |-> peer, result |-> result]

\* SwarmEvent::Behaviour(ComposedEvent::Mdns(MdnsEvent::Discovered(list)))
SwarmMdnsDiscovered(list) == [swarm |-> "MdnsDiscovered", list |-> list]

\* SwarmEvent::Behaviour(ComposedEvent::Mdns(MdnsEvent::Expired(list)))
SwarmMdnsExpired(list) == [swarm |-> "MdnsExpired", list |-> list]

SwarmConnectionEstablished(peer_id, address) ==
    [swarm |-> "ConnectionEstablished", peer_id |-> peer_id, address |-> address]

SwarmConnectionClosed(peer_id) == [swarm |-> "ConnectionClosed", peer_id |-> peer_id]

SwarmDialing(peer_id) == [swarm |-> "Dialing", peer_id |-> peer_id]

\* SwarmEvent::OutgoingConnectionError { peer_id: Option<PeerId>, error }
SwarmOutgoingConnectionError(peer_id, error) ==
    [swarm |-> "OutgoingConnectionError", failed |-> [peer_id |-> peer_id, error |-> error]]

\* any other SwarmEvent: the `_ => {}` arm
SwarmOther == [swarm |-> "NewListenAddr"]

\* what handle_event returns and what it leaves in the engine and its behaviours
Handled(ret, nc, ep, ka, written, via, reports) ==
    [ret |-> ret, nick_cache |-> nc, explicit_peers |-> ep, kad_addresses |-> ka,
     written |-> written, via |-> via, reports |-> reports]

\* Client::handle_event: one composite event, at most one ClientEvent
handle_event(nc, ep, ka, nodes, event) ==
    CASE event.swarm = "Gossipsub" ->
           LET r == handle_gossipsub_message(nc, event.ev)
           IN  Handled(Ok(r.evt), r.nick_cache, ep, ka, r.written, "gossip", r.reports)
      [] event.swarm = "Kademlia" ->
           LET r == handle_query_completed(nc, event.result)
           IN  Handled(r.ret, r.nick_cache, ep, ka, r.written, "lookup", <<>>)
      [] event.swarm = "MdnsDiscovered" ->
           LET r == mdns_discovered(ep, ka, event.list)
           IN  Handled(Ok(None), nc, r.explicit_peers, r.kad_addresses, {}, "", <<>>)
      [] event.swarm = "MdnsExpired" ->
           LET r == mdns_expired(ep, ka, nodes, event.list)
           IN  Handled(Ok(None), nc, r.explicit_peers, r.kad_addresses, {}, "", <<>>)
      [] event.swarm = "ConnectionEstablished" ->
           LET r == connection_established(ka, event.peer_id, event.address)
           IN  Handled(r.ret, nc, ep, r.kad_addresses, {}, "", <<>>)
      [] event.swarm = "ConnectionClosed" ->
           Handled(connection_closed(event.peer_id), nc, ep, ka, {}, "", <<>>)
      [] event.swarm = "Dialing" ->
           Handled(dialing(event.peer_id), nc, ep, ka, {}, "", <<>>)
      [] event.swarm = "OutgoingConnectionError" ->
           Handled(outgoing_connection_error(event.failed.peer_id, event.failed.error),
                   nc, ep, ka, {}, "", <<>>)
      [] OTHER -> Handled(Ok(None), nc, ep, ka, {}, "", <<>>)

\* a poll that takes the newest event the swarm has ready
swarm_poll_next_newest(queue) ==
    [event |-> queue[Len(queue)], rest |-> SubSeq(queue, 1, Len(queue) - 1)]

\* Pin::new(&mut self.swarm).poll_next(cx): the oldest event the swarm has ready
swarm_poll_next(queue) == [event |-> Head(queue), rest |-> Tail(queue)]

StreamPeer == "peerA"

StreamPairs == <<<<StreamPeer, Addr1>>>>

\* the composite events the swarm surfaces
StreamEvents ==
    {SwarmGossipsub(GossipsubMessageEvent("peerC",
         GossipsubMessage(StreamPeer, data, DEFAULT_GOSSIPSUB_TOPIC))) :
        data \in DedupPayloads[StreamPeer]}
    \cup {SwarmKademlia(StreamPeer, GetRecordOk(<<OwnRecord(StreamPeer)>>)),
          SwarmKademlia(LocalPeer, OtherQueryResult)}
    \cup {SwarmMdnsDiscovered(StreamPairs), SwarmMdnsExpired(StreamPairs)}
    \cup {SwarmConnectionEstablished(StreamPeer, Addr1), SwarmConnectionClosed(StreamPeer),
          SwarmDialing(StreamPeer),
          SwarmOutgoingConnectionError(Some(StreamPeer), "Banned"), SwarmOther}

\* a behaviour or the transport queues a composite event; the mdns behaviour has
\* updated its nodes, and a completed get_record query is no longer in flight
SwarmSurfaces(event) ==
    /\ ~panicked
    /\ Len(consumed) + Len(swarm_queue) < MaxSurfaced
    /\ event.swarm = "MdnsExpired" => SeqToSet(event.list) \subseteq mdns_nodes
    /\ (event.swarm = "Kademlia" /\ event.result.tag = "GetRecord")
          => kad_queries[event.peer] > 0
    /\ swarm_queue' = Append(swarm_queue, event)
    /\ mdns_nodes' = CASE event.swarm = "MdnsDiscovered" -> mdns_nodes \cup SeqToSet(event.list)
                       [] event.swarm = "MdnsExpired" -> mdns_nodes \ SeqToSet(event.list)
                       [] OTHER -> mdns_nodes
    /\ kad_queries' = IF event.swarm = "Kademlia" /\ event.result.tag = "GetRecord"
                      THEN [kad_queries EXCEPT ![event.peer] = @ - 1]
                      ELSE kad_queries
    /\ last' = Last("surfaced", event, Ok(Unit), None, <<>>)
    /\ UNCHANGED <<nick_cache, channels, subscriptions, nick_source>>
    /\ UNCHANGED swarm_vars
    /\ UNCHANGED <<store_vars, explicit_peers, kad_addresses, seen, delivered,
                   consumed, emitted>>

\* Stream::poll_next: take one event from the swarm, hand it to handle_event, yield
\* handle_event(e).unwrap_or(None); the expect of handle_message panics instead
PollNext(report_ok) ==
    /\ ~panicked
    /\ swarm_queue # <<>>
    /\ LET polled == swarm_poll_next(swarm_queue)
           r == handle_event(nick_cache, explicit_peers, kad_addresses, mdns_nodes,
                             polled.event)
           returns == report_ok \/ r.reports = <<>>
       IN  /\ swarm_queue' = polled.rest
           /\ nick_cache' = r.nick_cache
           /\ explicit_peers' = r.explicit_peers
           /\ kad_addresses' = r.kad_addresses
           /\ nick_source' = [p \in DOMAIN r.nick_cache |->
                                IF p \in r.written
                                THEN Written(r.via, IF r.via = "gossip"
                                                    THEN polled.event.ev.message.source
                                                    ELSE p)
                                ELSE nick_source[p]]
           /\ consumed' = Append(consumed,
                                 [event |-> polled.event,
                                  ret |-> IF returns THEN r.ret
                                          ELSE Err("could not report message validation")])
           /\ emitted' = IF returns THEN Append(emitted, poll_item(r.ret)) ELSE emitted
           /\ panicked' = ~returns
           /\ last' = IF returns
                      THEN Last("poll_next", polled.event, r.ret, poll_item(r.ret), r.reports)
                      ELSE Last("panic", polled.event,
                                Err("could not report message validation"), None, r.reports)
    /\ UNCHANGED <<channels, subscriptions, kad_queries>>
    /\ UNCHANGED <<published, topic_peers, floodsub_events>>
    /\ UNCHANGED <<store_vars, mdns_nodes, seen, delivered>>

NextStream ==
    \/ \E event \in StreamEvents : SwarmSurfaces(event)
    \/ \E report_ok \in BOOLEAN : PollNext(report_ok)
    \/ FetchNickname(StreamPeer)

SpecStream == Init /\ [][NextStream]_vars

(***************************************************************************)
(* The nicknames that reach the cache: Client::new, gossip, DHT records.   *)
(***************************************************************************)
\* the nicknames a user starts a node with, a peer announces or a peer stores
CacheNickSamples ==
    {<<>>, <<"a", "l">>, Rep("n", MAX_NICK_LENGTH), Rep("n", MAX_NICK_LENGTH + 1)}

\* the record peer p stores for itself with the nickname it chose
NicknameRecord(p, nickname) ==
    Record(NicknameRecordKey(p),
           MemoryValue_encode_signed(ValueNickname(p, nickname), p).val)

\* main.rs passes --nick, $USER or "user" to Client::new as it is
InitNicknames ==
    /\ \E nick \in CacheNickSamples : InitClient(nick)
    /\ last = Last("new", LocalPeer, Ok(Unit), None, <<>>)

NextNicknames ==
    \/ \E peer \in FetchPeers : FetchNickname(peer)
    \/ \E p \in RemotePeers, nickname \in CacheNickSamples :
          HandleGetRecordCompleted(p, GetRecordOk(<<NicknameRecord(p, nickname)>>))
    \/ \E prop \in RemotePeers, origin \in RemotePeers, nick \in CacheNickSamples :
          \E report_ok \in BOOLEAN :
             HandleGossipsubMessage(
                 GossipsubMessageEvent(prop,
                     GossipsubMessage(origin, Command_to_vec(NicknameUpdate(nick)),
                                      DEFAULT_GOSSIPSUB_TOPIC)),
                 report_ok)

SpecNicknames == InitNicknames /\ [][NextNicknames]_vars

(***************************************************************************)
(* Properties.                                                             *)
(***************************************************************************)
\* the payload is the encoding of a Command that satisfies the validity predicate
GoodPayload(data) ==
    Command_from_read(data).ok /\ is_valid(Command_from_read(data).val)

LastIsGossip == last.op = "gossipsub_message"

\* C1: every Message and UpdatedNickname event the engine emits carries the fields
\* of a Command that satisfies is_valid, whatever arrived on the gossip overlay.
C1_SurfacedCommandsAreValid ==
    last.event.some =>
        CASE last.event.v.type = "Message" ->
                is_valid(MessageSend(last.event.v.contents, last.event.v.channel,
                                     last.event.v.timestamp, last.event.v.message_type))
          [] last.event.v.type = "UpdatedNickname" ->
                is_valid(NicknameUpdate(last.event.v.nick))
          [] OTHER -> TRUE

\* a message of exactly the longest valid contents was surfaced
C1_Witness ==
    /\ LastIsGossip
    /\ last.event.some
    /\ last.event.v.type = "Message"
    /\ Len(last.event.v.contents) = MAX_MESSAGE_LENGTH

\* C2: a gossip message whose payload does not decode or fails validation is
\* answered with Reject, yields no event and no error, and leaves the nickname
\* cache and the membership list as they were.
C2_InvalidPayloadRejectedSilently ==
    [][(last'.op = "gossipsub_message" /\ ~GoodPayload(last'.arg.message.data)) =>
          /\ last'.reports = <<Report(last'.arg.message_id, last'.arg.propagation_source,
                                      "Reject")>>
          /\ last'.event = None
          /\ last'.ret.ok
          /\ nick_cache' = nick_cache
          /\ channels' = channels]_vars

\* an over-long MessageSend was rejected while a lookup was pending and a channel joined
C2_Witness ==
    /\ LastIsGossip
    /\ last.arg.message.data =
          Command_to_vec(MessageSend(Rep("m", MAX_MESSAGE_LENGTH + 1), General, 64, "Normal"))
    /\ last.reports[1].acceptance = "Reject"
    /\ last.event = None
    /\ "peerA" \in DOMAIN nick_cache
    /\ channels # <<>>

\* C3: each gossip message event gets exactly one verdict, for its own message id,
\* and the verdict is Accept exactly when the payload decodes to a valid Command.
C3_OneVerdictPerMessage ==
    LastIsGossip =>
        /\ Len(last.reports) = 1
        /\ last.reports[1].message_id = last.arg.message_id
        /\ last.reports[1].acceptance \in {"Accept", "Reject"}
        /\ last.reports[1].acceptance = "Accept" <=> GoodPayload(last.arg.message.data)

\* a well-formed message was accepted
C3_Witness ==
    /\ LastIsGossip
    /\ GoodPayload(last.arg.message.data)
    /\ last.reports = <<Report(last.arg.message_id, last.arg.propagation_source, "Accept")>>

\* C4: a valid MessageSend of origin A, delivered on the topic of a channel the
\* node has joined, yields one Message event with A's contents and channel and
\* with source A, also when another peer forwarded it.
C4_MessageSourceIsOrigin ==
    (LastIsGossip /\ GoodPayload(last.arg.message.data)
       /\ Command_from_read(last.arg.message.data).val.tag = "MessageSend"
       /\ Contains(channels, Command_from_read(last.arg.message.data).val.channel)
       /\ last.arg.message.topic =
             topic_from_channel(Command_from_read(last.arg.message.data).val.channel)) =>
        /\ last.event.some
        /\ last.event.v.type = "Message"
        /\ last.event.v.contents = Command_from_read(last.arg.message.data).val.contents
        /\ last.event.v.channel = Command_from_read(last.arg.message.data).val.channel
        /\ last.event.v.source = last.arg.message.source

\* C5: at most one get_record per peer is in flight; the first fetch of an unknown
\* peer issues one and marks the peer pending, a fetch of a known peer issues none
\* and, while the peer is pending, returns unresolved.
C5_AtMostOneLookupInFlight ==
    /\ [](\A p \in Peers : kad_queries[p] <= 1)
    /\ [][last'.op = "fetch_nickname" =>
            IF last'.arg \notin DOMAIN nick_cache
            THEN /\ kad_queries' = [kad_queries EXCEPT ![last'.arg] = @ + 1]
                 /\ nick_cache' = Insert(nick_cache, last'.arg, None)
                 /\ last'.ret = Ok(None)
            ELSE /\ kad_queries' = kad_queries
                 /\ nick_cache' = nick_cache
                 /\ ~nick_cache[last'.arg].some => last'.ret = Ok(None)]_vars

\* a second fetch of a pending peer returned unresolved with one query in flight
C5_Witness ==
    /\ last.op = "fetch_nickname"
    /\ last.arg = "peerA"
    /\ last.ret = Ok(None)
    /\ nick_source["peerA"].via = "fetch"
    /\ kad_queries["peerA"] = 1
    /\ subscriptions # {DEFAULT_GOSSIPSUB_TOPIC}

\* C6: a fetch of a resolved peer returns the cached nickname, issues no get_record
\* and changes neither the cache, the membership list nor the subscriptions.
C6_ResolvedFetchIsPure ==
    [][(last'.op = "fetch_nickname" /\ last'.arg \in DOMAIN nick_cache
          /\ nick_cache[last'.arg].some) =>
          /\ last'.ret = Ok(nick_cache[last'.arg])
          /\ kad_queries' = kad_queries
          /\ nick_cache' = nick_cache
          /\ channels' = channels
          /\ subscriptions' = subscriptions]_vars

\* the nickname of a remote peer was served from the cache
C6_Witness ==
    /\ last.op = "fetch_nickname"
    /\ last.arg = "peerA"
    /\ last.ret = Ok(Some(NickOf("peerA")))

\* the entry of p holds the nickname of p's own record, put there by the lookup
ResolvedByLookup(p) ==
    /\ p \in DOMAIN nick_cache
    /\ nick_source[p] = Written("lookup", p)
    /\ nick_cache[p] = Some(NickOf(p))

\* C7: once the lookup result with A's own record has been translated, every later
\* fetch_nickname(A) returns A's nickname: the entry keeps A's nickname.
C7_LookupResolvesForGood ==
    [][\A p \in RemotePeers :
          ResolvedByLookup(p) =>
              /\ p \in DOMAIN nick_cache'
              /\ nick_cache'[p] = Some(NickOf(p))
              /\ (last'.op = "fetch_nickname" /\ last'.arg = p) =>
                     last'.ret = Ok(Some(NickOf(p)))]_vars

\* the envelope opens and its payload names an owner other than the signer
OwnerDiffersFromSigner(record) ==
    /\ record.value.protobuf
    /\ payload_and_signing_key(record.value, SIGNED_ENVELOPE_DOMAIN, MULTICODEC_MSGPACK).ok
    /\ MemoryValue_from_read(record.value.payload).ok
    /\ ExpectedSigner(MemoryValue_from_read(record.value.payload).val) # record.value.key

\* the record is a nickname record of q, signed by q and stored under q's key
VerifiedFor(record, q) ==
    /\ MemoryKey_decode(record.key) = Ok(KeyNickname(q))
    /\ record.value.protobuf
    /\ payload_and_signing_key(record.value, SIGNED_ENVELOPE_DOMAIN, MULTICODEC_MSGPACK).ok
    /\ record.value.key = q
    /\ MemoryValue_from_read(record.value.payload).ok
    /\ MemoryValue_from_read(record.value.payload).val.tag = "Nickname"
    /\ MemoryValue_from_read(record.value.payload).val.user = q

LastIsGetRecord == last.op = "query_completed" /\ last.arg.tag = "GetRecord" /\ last.arg.ok

\* C8: a lookup result with a record whose declared owner is not its signer yields
\* no event and no error, and the record changes no cache entry: an entry changes
\* only to the nickname of a verified record of the same result.
C8_MismatchedRecordDiscarded ==
    [][(last'.op = "query_completed" /\ last'.arg.tag = "GetRecord" /\ last'.arg.ok
          /\ \E i \in DOMAIN last'.arg.records : OwnerDiffersFromSigner(last'.arg.records[i])) =>
          /\ last'.event = None
          /\ DOMAIN nick_cache' = DOMAIN nick_cache
          /\ \A q \in DOMAIN nick_cache :
                nick_cache'[q] # nick_cache[q] =>
                    \E i \in DOMAIN last'.arg.records :
                       /\ VerifiedFor(last'.arg.records[i], q)
                       /\ nick_cache'[q] =
                             Some(MemoryValue_from_read(
                                      last'.arg.records[i].value.payload).val.nickname)]_vars

\* the only record of a result was forged, and the looked-up peer is still pending
C8_Witness ==
    /\ LastIsGetRecord
    /\ last.arg.records = <<ForgedRecord("peerA")>>
    /\ last.event = None
    /\ nick_cache["peerA"] = None
    /\ kad_queries["peerA"] = 0

NoDuplicates(seq) == \A i, j \in DOMAIN seq : seq[i] = seq[j] => i = j

\* C9: the membership list never holds an identifier twice; joining a channel one
\* is in and leaving a channel one is not in return Ok and change neither the
\* membership list nor the subscriptions.
C9_MembershipHasNoDuplicates ==
    /\ [](NoDuplicates(channels))
    /\ [][/\ (last'.op = "join_channel" /\ Contains(channels, last'.arg)) =>
               (last'.ret = Ok(Unit) /\ channels' = channels
                  /\ subscriptions' = subscriptions)
          /\ (last'.op = "leave_channel" /\ ~Contains(channels, last'.arg)) =>
               (last'.ret = Ok(Unit) /\ channels' = channels
                  /\ subscriptions' = subscriptions)]_vars

\* a second join of a channel, with another channel joined before it
C9_Witness ==
    /\ last.op = "join_channel"
    /\ last.arg = General
    /\ last.ret = Ok(Unit)
    /\ channels = <<Random, General>>

ChannelTopics == {topic_from_channel(channels[i]) : i \in DOMAIN channels}

SubscriptionsMatchMembership ==
    subscriptions \ {DEFAULT_GOSSIPSUB_TOPIC} = ChannelTopics

\* C10: successful joins and leaves keep the subscribed channel topics equal to the
\* topics of the membership list; after leave_channel(c) the topic of c is not
\* subscribed.
C10_SubscriptionsFollowMembership ==
    [][(last'.op \in {"join_channel", "leave_channel"} /\ last'.ret.ok
          /\ SubscriptionsMatchMembership) =>
          SubscriptionsMatchMembership']_vars

\* the command send_message builds from its arguments
SentCommand(arg) == MessageSend(arg.message, arg.channel, arg.now.millis, arg.message_type)

\* gossipsub has published a message with these bytes before
PublishedBefore(cmd) ==
    \E m \in published : m.data = Command_to_vec(cmd)

\* C11: a send of a valid, new message while no peer is subscribed to the topic
\* returns PublishError(InsufficientPeers) and changes nothing of the engine; no
\* other failure of a send returns that error; and with a peer subscribed the
\* same send returns Ok and the message is published.
C11_InsufficientPeersIsDistinctAndRecoverable ==
    [][last'.op = "send_message" =>
          /\ (is_valid(SentCommand(last'.arg)) /\ last'.arg.sign_ok
                /\ ~PublishedBefore(SentCommand(last'.arg))
                /\ Recipients(topic_peers, topic_from_channel(last'.arg.channel)) = {}) =>
               /\ last'.ret = Err(PublishError("InsufficientPeers"))
               /\ channels' = channels
               /\ nick_cache' = nick_cache
               /\ subscriptions' = subscriptions
               /\ published' = published
               /\ topic_peers' = topic_peers
               /\ ~panicked'
          /\ last'.ret = Err(PublishError("InsufficientPeers")) =>
               /\ is_valid(SentCommand(last'.arg))
               /\ last'.arg.sign_ok
               /\ Recipients(topic_peers, topic_from_channel(last'.arg.channel)) = {}
          /\ (is_valid(SentCommand(last'.arg)) /\ last'.arg.sign_ok
                /\ ~PublishedBefore(SentCommand(last'.arg))
                /\ Recipients(topic_peers, topic_from_channel(last'.arg.channel)) # {}) =>
               /\ last'.ret = Ok(Unit)
               /\ \E m \in published' : m.data = Command_to_vec(SentCommand(last'.arg))]_vars

\* a send failed for want of peers, in a joined channel, after a peer had been
\* subscribed and a message published
C11_Witness ==
    /\ last.op = "send_message"
    /\ last.ret = Err(PublishError("InsufficientPeers"))
    /\ channels = <<General>>
    /\ published # {}
    /\ Recipients(topic_peers, topic_from_channel(General)) = {}

\* C12: send_message with arguments that make an invalid Command (empty or
\* over-long contents, empty or over-long channel) returns the error of encode and
\* hands nothing to gossipsub, whether or not a peer is subscribed.
C12_InvalidSendPublishesNothing ==
    [][(last'.op = "send_message" /\ ~is_valid(SentCommand(last'.arg))) =>
          /\ last'.ret = Err("InvalidData")
          /\ published' = published
          /\ \A m \in published' : GoodPayload(m.data)]_vars

\* an over-long message was refused while a peer was subscribed to the topic
C12_Witness ==
    /\ last.op = "send_message"
    /\ Len(last.arg.message) = MAX_MESSAGE_LENGTH + 1
    /\ last.ret = Err("InvalidData")
    /\ Recipients(topic_peers, topic_from_channel(last.arg.channel)) # {}

\* C13: the engine never hands the consumer a Message event for a message the
\* node itself sent: no polled Message has the local node as its source.
C13_NoLocalEcho ==
    (last.op = "lib_poll_next" /\ last.event.some /\ last.event.v.type = "Message") =>
        last.event.v.source # LocalPeer

\* C14: encode succeeds on every valid Command and decode gives the Command back;
\* whatever decode returns is valid, and it returns an error for bytes that are
\* no Command and for the bytes of an invalid Command.
C14_DecodeInvertsEncode ==
    /\ (last.op = "encode" /\ is_valid(last.arg.cmd)) => last.ret.ok
    /\ last.op = "decode_encoded" => last.ret = Ok(last.arg.cmd)
    /\ (last.op \in {"decode", "decode_encoded"} /\ last.ret.ok) => is_valid(last.ret.val)
    /\ (last.op = "decode" /\ ~Command_from_read(last.arg.bytes).ok) => ~last.ret.ok
    /\ (last.op = "decode" /\ Command_from_read(last.arg.bytes).ok
          /\ ~is_valid(Command_from_read(last.arg.bytes).val)) => ~last.ret.ok

\* an emote of the longest valid contents came back from decode(encode(..))
C14_Witness ==
    /\ last.op = "decode_encoded"
    /\ last.arg.cmd.tag = "MessageSend"
    /\ last.arg.cmd.message_type = "Me"
    /\ Len(last.arg.cmd.contents) = MAX_MESSAGE_LENGTH
    /\ last.ret = Ok(last.arg.cmd)

\* str.chars().count(): the characters of a string
char_len(str) == Cardinality({i \in DOMAIN str : str[i] # Cont})

\* C15: is_valid of a MessageSend is true exactly when contents has 1 to 512
\* characters and channel has 1 to 20 characters, whatever the timestamp and kind.
C15_MessageSendValidByCharacters ==
    (last.op = "is_valid" /\ last.arg.cmd.tag = "MessageSend") =>
        (last.ret.val <=>
            /\ char_len(last.arg.cmd.contents) >= 1
            /\ char_len(last.arg.cmd.contents) <= 512
            /\ char_len(last.arg.cmd.channel) >= 1
            /\ char_len(last.arg.cmd.channel) <= 20)

\* C16: is_valid of a NicknameUpdate is true exactly when the nickname has 1 to 20
\* characters, and is true of every ChannelUpdate, ChannelRequestJoin and
\* ChannelRequestLeave.
C16_NicknameValidByCharacters ==
    last.op = "is_valid" =>
        CASE last.arg.cmd.tag = "NicknameUpdate" ->
                (last.ret.val <=>
                    char_len(last.arg.cmd.nick) >= 1 /\ char_len(last.arg.cmd.nick) <= 20)
          [] last.arg.cmd.tag = "MessageSend" -> TRUE
          [] OTHER -> last.ret.val

\* the owner a MemoryValue declares
DeclaredOwner(value) ==
    IF value.tag = "Nickname" THEN value.user ELSE value.channel.owner

\* C17: decode of encode_signed(v, k) returns v when v's declared owner is the peer
\* of k, and fails with SignatureMismatch when it is any other peer.
C17_SignedRoundTrip ==
    last.op = "decode_signed" =>
        IF DeclaredOwner(last.arg.value) = last.arg.key
        THEN last.ret = Ok(last.arg.value)
        ELSE last.ret = Err("SignatureMismatch")

\* a channel record signed by its owner, who is not the first of its peers, came back
C17_Witness ==
    /\ last.op = "decode_signed"
    /\ last.arg.value.tag = "Channel"
    /\ last.arg.value.channel.peers # <<>>
    /\ Head(last.arg.value.channel.peers) # last.arg.value.channel.owner
    /\ last.arg.key = last.arg.value.channel.owner
    /\ last.ret = Ok(last.arg.value)

\* "/p2p-chat/channel/"
ChannelTopicPrefix ==
    <<"/", "p", "2", "p", "-", "c", "h", "a", "t", "/", "c", "h", "a", "n", "n", "e", "l", "/">>

\* C19: the topic of a channel is "/p2p-chat/channel/" followed by the identifier;
\* equal identifiers give equal topics, different identifiers different topics,
\* and no channel topic is the default topic.
C19_TopicIsPrefixedIdentifier ==
    last.op = "topic_from_channel" =>
        /\ last.ret.val.topic = ChannelTopicPrefix \o last.arg.ident
        /\ last.ret.val.other_topic = ChannelTopicPrefix \o last.arg.other
        /\ (last.arg.ident = last.arg.other) <=> (last.ret.val.topic = last.ret.val.other_topic)
        /\ last.ret.val.topic # DEFAULT_GOSSIPSUB_TOPIC

\* the topics of the empty identifier and of another identifier were computed
C19_Witness ==
    /\ last.op = "topic_from_channel"
    /\ last.arg.ident = <<>>
    /\ last.arg.other = General
    /\ last.ret.val.topic # last.ret.val.other_topic

\* the envelope's signature was made over another domain or another payload type
ForeignSigned(record) ==
    /\ record.value.protobuf
    /\ \/ record.value.signature.domain # SIGNED_ENVELOPE_DOMAIN
       \/ record.value.signature.payload_type # MULTICODEC_MSGPACK

\* C18: a lookup result with a record whose envelope was signed over another domain
\* or payload type yields no event; the record yields no value: when it is the first
\* record, the translation ends with the envelope's error and the cache is as it
\* was, and in any position no cache entry changes except to the nickname of a
\* verified record of the same result that was signed over the application's domain.
C18_ForeignEnvelopeRejected ==
    [][(last'.op = "query_completed" /\ last'.arg.tag = "GetRecord" /\ last'.arg.ok
          /\ \E i \in DOMAIN last'.arg.records : ForeignSigned(last'.arg.records[i])) =>
          /\ last'.event = None
          /\ DOMAIN nick_cache' = DOMAIN nick_cache
          /\ (ForeignSigned(last'.arg.records[1])
                /\ MemoryKey_decode(last'.arg.records[1].key).ok) =>
               /\ last'.ret = Err("SignedEnvelopeReadPayloadError")
               /\ nick_cache' = nick_cache
          /\ \A q \in DOMAIN nick_cache :
                nick_cache'[q] # nick_cache[q] =>
                    \E i \in DOMAIN last'.arg.records :
                       /\ ~ForeignSigned(last'.arg.records[i])
                       /\ VerifiedFor(last'.arg.records[i], q)
                       /\ nick_cache'[q] =
                             Some(MemoryValue_from_read(
                                      last'.arg.records[i].value.payload).val.nickname)]_vars

\* the only record of a result was signed over another domain by the looked-up
\* peer itself, and that peer is still pending
C18_Witness ==
    /\ LastIsGetRecord
    /\ last.arg.records = <<ForeignDomainRecord("peerA")>>
    /\ last.ret = Err("SignedEnvelopeReadPayloadError")
    /\ last.event = None
    /\ nick_cache["peerA"] = None

\* C20: no failure on the event-translation path or in a public method ends the
\* process: the thread that drives the engine never panics.
C20_NoFailureTerminatesTheProcess == ~panicked

\* the nickname a nickname record carries
RecordNickname(record) == MemoryValue_from_read(record.value.payload).val.nickname

\* C23: every record of a lookup result that verifies for a peer q populates the
\* entry of q, whatever else the result holds and wherever: after the result the
\* entry of q is the nickname of a verified record of q in the result.
C23_EachRecordHandledIndependently ==
    [][(last'.op = "query_completed" /\ last'.arg.tag = "GetRecord" /\ last'.arg.ok) =>
          \A q \in RemotePeers :
             (\E i \in DOMAIN last'.arg.records : VerifiedFor(last'.arg.records[i], q)) =>
                 /\ q \in DOMAIN nick_cache'
                 /\ \E i \in DOMAIN last'.arg.records :
                       /\ VerifiedFor(last'.arg.records[i], q)
                       /\ nick_cache'[q] = Some(RecordNickname(last'.arg.records[i]))]_vars

\* the record is stored under the key of one peer and is a nickname record that
\* another peer owns and signed
KeyOwnerMismatch(record) ==
    /\ MemoryKey_decode(record.key).ok
    /\ MemoryKey_decode(record.key).val.tag = "Nickname"
    /\ record.value.protobuf
    /\ payload_and_signing_key(record.value, SIGNED_ENVELOPE_DOMAIN, MULTICODEC_MSGPACK).ok
    /\ MemoryValue_from_read(record.value.payload).ok
    /\ MemoryValue_from_read(record.value.payload).val.tag = "Nickname"
    /\ MemoryValue_from_read(record.value.payload).val.user = record.value.key
    /\ MemoryValue_from_read(record.value.payload).val.user
          # MemoryKey_decode(record.key).val.peer

\* C24: a lookup result with a record stored under the key of K and owned and
\* signed by another peer U yields no event, and the record changes neither the
\* entry of K nor the entry of U: when it is the first record the cache is as it
\* was, and in any position entries change only to the nickname of a verified
\* record of the same result.
C24_OwnerMustEqualKey ==
    [][(last'.op = "query_completed" /\ last'.arg.tag = "GetRecord" /\ last'.arg.ok
          /\ \E i \in DOMAIN last'.arg.records : KeyOwnerMismatch(last'.arg.records[i])) =>
          /\ last'.event = None
          /\ DOMAIN nick_cache' = DOMAIN nick_cache
          /\ KeyOwnerMismatch(last'.arg.records[1]) =>
               (nick_cache' = nick_cache /\ last'.ret = Ok(None))
          /\ \A q \in DOMAIN nick_cache :
                nick_cache'[q] # nick_cache[q] =>
                    \E i \in DOMAIN last'.arg.records :
                       /\ VerifiedFor(last'.arg.records[i], q)
                       /\ nick_cache'[q] = Some(RecordNickname(last'.arg.records[i]))]_vars

\* the only record of the result for peerA's key was peerC's own record; peerA is
\* still pending and peerC has no entry
C24_Witness ==
    /\ LastIsGetRecord
    /\ last.arg.records = <<MisfiledRecord("peerA")>>
    /\ last.event = None
    /\ nick_cache["peerA"] = None
    /\ "peerC" \notin DOMAIN nick_cache

\* C25: a resolved entry of a remote peer p holds a nickname that p authored: it
\* came from a record signed by p or from a NicknameUpdate whose origin is p.
C25_CacheEntriesAreAuthoredByTheirPeer ==
    \A p \in DOMAIN nick_cache \ {LocalPeer} :
       nick_cache[p].some => nick_source[p].author = p

\* C30: when a completed lookup resolves the nickname of a pending peer, the poll
\* that translated it hands the consumer a ClientEvent.
C30_ResolvedLookupSurfacesAsEvent ==
    [][(last'.op = "query_completed"
          /\ \E p \in RemotePeers :
                /\ p \in DOMAIN nick_cache
                /\ ~nick_cache[p].some
                /\ nick_cache'[p].some) =>
          last'.event.some]_vars

\* the local store holds own's nickname record, signed by own, and own provides it
OwnNicknameStored(nick) ==
    /\ \E record \in kad_store :
          /\ MemoryKey_decode(record.key) = Ok(KeyNickname(LocalPeer))
          /\ record.value.key = LocalPeer
          /\ MemoryValue_decode(record.value) = Ok(ValueNickname(LocalPeer, nick))
    /\ [key |-> NicknameRecordKey(LocalPeer), provider |-> LocalPeer] \in kad_providers
    /\ nick_cache[LocalPeer] = Some(nick)

\* C22: once Client::new has returned, the local DHT store holds the node's own
\* signed nickname record under the key Nickname(own), the node is registered as
\* a provider of that key, the cache maps own to the nickname, and a
\* fetch_nickname(own) made right then returns the nickname and starts no DHT query.
C22_NewPublishesOwnNickname ==
    /\ [](last.op = "new" => OwnNicknameStored(NickOf(LocalPeer)))
    /\ [][(last.op = "new" /\ last'.op = "fetch_nickname" /\ last'.arg = LocalPeer)
            => /\ last'.ret = Ok(Some(NickOf(LocalPeer)))
               /\ kad_queries' = kad_queries]_vars

\* fetch_nickname(own) has answered from the cache while no query was ever started
C22_Witness ==
    /\ last.op = "fetch_nickname"
    /\ last.arg = LocalPeer
    /\ last.ret = Ok(Some(NickOf(LocalPeer)))
    /\ \A p \in Peers : kad_queries[p] = 0
    /\ OwnNicknameStored(NickOf(LocalPeer))

\* the routing table holds an address of the peer
HasAddress(table, peer) == \E entry \in table : entry[1] = peer

\* C26: when a peer-discovered event has been handled, every (peer, address) pair
\* it carried is registered with both other sub-protocols: the peer is in the gossip
\* explicit-peer set and the pair is in the DHT routing table; the event yields no
\* ClientEvent.
C26_DiscoveredRegistersEveryPair ==
    [][last'.op = "mdns_discovered"
         => /\ \A i \in DOMAIN last'.arg :
                 /\ last'.arg[i][1] \in explicit_peers'
                 /\ last'.arg[i] \in kad_addresses'
            /\ last'.ret = Ok(None)
            /\ last'.event = None]_vars

\* an event with two pairs of two different peers has been handled
C26_Witness ==
    /\ last.op = "mdns_discovered"
    /\ Len(last.arg) = 2
    /\ last.arg[1][1] # last.arg[2][1]
    /\ \A i \in DOMAIN last.arg :
          last.arg[i][1] \in explicit_peers /\ last.arg[i] \in kad_addresses

\* C27: when a peer-expired event for p has been handled, p is out of the gossip
\* explicit-peer set unless the discovery layer still tracks p, and the DHT routing
\* table holds no address of p at all, whichever event added it.
C27_ExpiredRemovesEveryAddress ==
    [][last'.op = "mdns_expired"
         => \A i \in DOMAIN last'.arg :
               /\ ~has_node(mdns_nodes', last'.arg[i][1])
                     => last'.arg[i][1] \notin explicit_peers'
               /\ ~HasAddress(kad_addresses', last'.arg[i][1])]_vars

\* C28: when a connection-established event for p at address a has been handled,
\* the routing table holds (p, a) and the item is PeerConnected(p);
\* connection-closed, dialing and outgoing-connection-error each yield exactly the
\* PeerDisconnected, Dialing or OutgoingConnectionError event with the same peer id;
\* none of the four changes the nickname cache or the membership list.
C28_ConnectionEventsAreReported ==
    [][/\ last'.op = "connection_established"
            => /\ last'.arg \in kad_addresses'
               /\ last'.event = Some(EventPeerConnected(last'.arg[1]))
       /\ last'.op = "connection_closed"
            => last'.event = Some(EventPeerDisconnected(last'.arg))
       /\ last'.op = "dialing"
            => last'.event = Some(EventDialing(last'.arg))
       /\ last'.op = "outgoing_connection_error"
            => last'.event = Some(EventOutgoingConnectionError(last'.arg[1], last'.arg[2]))
       /\ last'.op \in {"connection_established", "connection_closed", "dialing",
                        "outgoing_connection_error"}
            => nick_cache' = nick_cache /\ channels' = channels]_vars

\* a connection was established at an address that no discovery event announced
C28_Witness ==
    /\ last.op = "connection_established"
    /\ last.arg \in kad_addresses
    /\ last.arg \notin mdns_nodes
    /\ last.event = Some(EventPeerConnected(last.arg[1]))

\* C27 (amended): when a peer-expired event has been handled, each expired peer is
\* out of the gossip explicit-peer set unless the discovery layer still tracks it,
\* and the routing table has lost exactly the expired (peer, address) pairs: other
\* addresses of the same peer stay.
C27_ExpiredRemovesTheExpiredAddress ==
    [][last'.op = "mdns_expired"
         => /\ \A i \in DOMAIN last'.arg :
                 ~has_node(mdns_nodes', last'.arg[i][1])
                     => last'.arg[i][1] \notin explicit_peers'
            /\ \A p \in explicit_peers \ explicit_peers' :
                 ~has_node(mdns_nodes', p) /\ \E i \in DOMAIN last'.arg : last'.arg[i][1] = p
            /\ explicit_peers' \subseteq explicit_peers
            /\ kad_addresses' = kad_addresses \ SeqToSet(last'.arg)]_vars

\* one address of a peer expired while the routing table keeps another address of
\* it, which a connection-established event added
C27_Witness ==
    /\ last.op = "mdns_expired"
    /\ \E i \in DOMAIN last.arg :
          /\ last.arg[i] \notin kad_addresses
          /\ ~has_node(mdns_nodes, last.arg[i][1])
          /\ last.arg[i][1] \notin explicit_peers
          /\ HasAddress(kad_addresses, last.arg[i][1])

\* a message of the same origin with the same payload bytes reached the engine before
DeliveredBefore(message) ==
    \E m \in delivered : m.source = message.source /\ m.data = message.data

\* C21: two gossip messages with the same origin and byte-identical payload get the
\* same message id, and a message whose origin and payload equal those of a message
\* that already reached the engine is not handed to the engine a second time,
\* whatever its sequence number and whoever forwarded it.
C21_SameContentIsDeliveredOnce ==
    /\ [](\A m1 \in DedupMessages, m2 \in DedupMessages :
             (m1.source = m2.source /\ m1.data = m2.data)
                 => message_id_fn(m1) = message_id_fn(m2))
    /\ [][last'.op \in {"gossipsub_message", "panic"}
             => ~DeliveredBefore(last'.arg.message)]_vars

\* a second publication (another sequence number) of delivered content was dropped
C21_Witness ==
    /\ last.op = "duplicate_ignored"
    /\ \E m \in delivered :
          /\ m.source = last.arg.message.source
          /\ m.data = last.arg.message.data
          /\ m.sequence_number # last.arg.message.sequence_number

\* the ClientEvents among what handle_event returned for the events consumed, in order
RECURSIVE Translated(_)
Translated(history) ==
    IF history = <<>> THEN <<>>
    ELSE LET h == history[Len(history)]
             before == Translated(SubSeq(history, 1, Len(history) - 1))
         IN  IF h.ret.ok /\ h.ret.val.some THEN Append(before, h.ret.val.v) ELSE before

\* the ClientEvents among the items poll_next yielded, in order
RECURSIVE Yielded(_)
Yielded(items) ==
    IF items = <<>> THEN <<>>
    ELSE LET before == Yielded(SubSeq(items, 1, Len(items) - 1))
         IN  IF items[Len(items)].some THEN Append(before, items[Len(items)].v) ELSE before

\* the composite events in the order the swarm surfaced them
Surfaced == [i \in DOMAIN consumed |-> consumed[i].event] \o swarm_queue

\* C29: each composite event the engine consumes yields at most one ClientEvent, and
\* the ClientEvents successive polls produce are exactly, in the same order, those of
\* the composite events that translate to one, taken in the order the swarm surfaced
\* them: nothing is reordered, batched, duplicated or held back behind a later event.
C29_EventsKeepSwarmOrder ==
    /\ [](Yielded(emitted) = Translated(consumed))
    /\ [][/\ \/ Surfaced' = Surfaced
             \/ \E event \in StreamEvents : Surfaced' = Append(Surfaced, event)
          /\ consumed' # consumed
               => /\ Len(consumed') = Len(consumed) + 1
                  /\ Len(emitted') <= Len(emitted) + 1
                  /\ consumed'[Len(consumed')].event = Head(swarm_queue)
                  /\ last'.op = "poll_next"
                       => /\ Len(emitted') = Len(emitted) + 1
                          /\ emitted'[Len(emitted')] = last'.event]_vars

\* three events were consumed, the first and the last of which translated to an
\* event and the second did not, and both events were yielded in that order
C29_Witness ==
    /\ Len(consumed) = 3
    /\ swarm_queue = <<>>
    /\ consumed[1].event.swarm = "ConnectionEstablished"
    /\ consumed[2].event.swarm = "MdnsDiscovered"
    /\ consumed[3].event.swarm = "Gossipsub"
    /\ Len(Yielded(emitted)) = 2
    /\ Yielded(emitted)[1].type = "PeerConnected"
    /\ Yielded(emitted)[2].type \in {"Message", "UpdatedNickname"}

\* C31: every Message event the engine emits names a channel that is in the
\* membership list when it is emitted, and that channel is the one whose gossip
\* topic the message was received on.
C31_MessageChannelIsJoined ==
    (LastIsGossip /\ last.event.some /\ last.event.v.type = "Message")
        => /\ Contains(channels, last.event.v.channel)
           /\ topic_from_channel(last.event.v.channel) = last.arg.message.topic

\* C32: a join_channel or leave_channel that returns an error of the gossip layer
\* leaves the membership list exactly as it was before the call.
C32_FailedCallKeepsMembership ==
    [][(last'.op \in {"join_channel", "leave_channel"} /\ ~last'.ret.ok)
          => channels' = channels]_vars

\* a join failed in the gossip layer while the node was in another channel, and the
\* membership list holds that channel and not the one asked for
C32_Witness ==
    /\ last.op = "join_channel"
    /\ ~last.ret.ok
    /\ channels # <<>>
    /\ ~Contains(channels, last.arg)
    /\ topic_from_channel(last.arg) \notin subscriptions

\* C33: nickname cache entries only move forward: an entry is never removed, a
\* resolved entry stays resolved (its nickname may be replaced by another one), a
\* pending entry stays pending or becomes resolved, and fetch_nickname changes no
\* entry that exists.
C33_CacheEntriesMoveForward ==
    [][\A p \in DOMAIN nick_cache :
          /\ p \in DOMAIN nick_cache'
          /\ nick_cache[p].some => nick_cache'[p].some
          /\ last'.op = "fetch_nickname" => nick_cache'[p] = nick_cache[p]]_vars

\* a fetch made an entry pending, and the lookup result resolved it
C33_Witness ==
    /\ last.op = "query_completed"
    /\ \E p \in RemotePeers :
          /\ p \in DOMAIN nick_cache
          /\ nick_cache[p].some
          /\ nick_source[p].via = "lookup"

\* the lookup result holds a nickname record of p that the engine accepts
HasUsableRecord(result, p) ==
    /\ result.tag = "GetRecord"
    /\ result.ok
    /\ \E i \in DOMAIN result.records : VerifiedFor(result.records[i], p)

Pending(cache, p) == p \in DOMAIN cache /\ cache[p] = None

\* C34: when a lookup completes without a usable record of a pending peer p, the
\* entry of p stays pending and no ClientEvent is emitted; a fetch_nickname(p) on a
\* pending entry returns unresolved, starts no DHT query and changes nothing; and
\* a pending entry becomes resolved only by a NicknameUpdate whose origin is p or by
\* a lookup result that holds a usable record of p.
C34_SilentNonResolution ==
    [][\A p \in RemotePeers :
          Pending(nick_cache, p) =>
              /\ (last'.op = "query_completed" /\ ~HasUsableRecord(last'.arg, p))
                    => Pending(nick_cache', p) /\ last'.event = None
              /\ (last'.op = "fetch_nickname" /\ last'.arg = p)
                    => /\ last'.ret = Ok(None)
                       /\ kad_queries' = kad_queries
                       /\ nick_cache' = nick_cache
              /\ ~Pending(nick_cache', p)
                    => \/ /\ last'.op \in {"gossipsub_message", "panic"}
                          /\ last'.arg.message.source = p
                       \/ /\ last'.op = "query_completed"
                          /\ HasUsableRecord(last'.arg, p)]_vars

\* C35: every resolved nickname the cache holds, whether it came from Client::new,
\* from a NicknameUpdate or from a DHT nickname record, is non-empty and at most
\* MAX_NICK_LENGTH characters long.
C35_CachedNicknamesAreWithinBounds ==
    \A p \in DOMAIN nick_cache :
        nick_cache[p].some
            => /\ ~is_empty(nick_cache[p].v)
               /\ char_len(nick_cache[p].v) <= MAX_NICK_LENGTH

====
